---- MODULE Spec2Model ----
(***************************************************************************)
(* Model of the SDMNH compilation pipeline (combine.py, src/database.py,   *)
(* update_db.py, automation.py): the catalogue and ledger tables, the      *)
(* ingest of a channel listing, the duration-budgeted selector, the tiered *)
(* compile_videos fallback chain, the run_auto / main runs that commit a   *)
(* compilation to the ledger, the daily run of automation.py with its      *)
(* once-per-day guard and its topic choice, and the chunk loop of          *)
(* upload_video (src/youtube_upload.py).                                   *)
(*                                                                         *)
(* Time is counted in cooldown units (days): utcnow is the variable now,   *)
(* timedelta(days=n) is n.                                                 *)
(***************************************************************************)
EXTENDS Integers, Sequences, FiniteSets, TLC

VARIABLES
    videos,              \* table videos: id -> [duration, topic, upload_date]
    compilations,        \* committed rows of table compilations
    compilation_videos,  \* committed rows of the junction table
    now,                 \* datetime.utcnow()
    sel,                 \* the last selector call and what it returned
    comp,                \* the last compile_videos call and what it returned
    run,                 \* the last run_auto / main run and how it ended
    history,             \* the runs that committed to the ledger, in order
    download_path,       \* the *.mp4 files of the download directory, as listed
    dl,                  \* the last download call(s) and what they returned
    ingest,              \* the last update_db run and what it stored
    last_run,            \* what data/last_run.json holds
    auto,                \* the last automation.py run and how far it got
    pick,                \* the last select_random_topic call and its result
    upload               \* the upload_video call in progress, or the last one

vars == <<videos, compilations, compilation_videos, now, sel, comp, run, history,
          download_path, dl, ingest, last_run, auto, pick, upload>>

(***************************************************************************)
(* Bounds of the model.                                                    *)
(***************************************************************************)
NumVideos == 3      \* catalogue size of the selector specification
MaxTime == 3        \* the clock stops here
MaxComps == 2       \* committed compilations per behaviour
MaxBatch == 2       \* videos in one channel listing of the ingest
MaxChunks == 2      \* chunks of the file that upload_video sends

(***************************************************************************)
(* Program constants.                                                      *)
(***************************************************************************)
DEFAULT_DURATION == 3600
MIN_OUTPUT_SIZE == 1000000

\* A nullable column holds NULL or one value.
NULL == {}
Some(x) == {x}
Val(d) == CHOOSE x \in d : TRUE

Topics == {"quiz", "general"}

\* Column values the selector specification draws durations from.
DurationValues == {NULL, Some(0), Some(3000), Some(4000), Some(5000)}

Range(s) == {s[i] : i \in 1..Len(s)}

\* All orderings of a finite set, as sequences without repetition.
Orderings(S) ==
    {s \in [1..Cardinality(S) -> S] :
        \A i, j \in 1..Cardinality(S) : i # j => s[i] # s[j]}

(***************************************************************************)
(* Catalogue queries.                                                      *)
(***************************************************************************)
\* session.query(Video).filter(Video.topic == topic)
\* (variant: the topic filter left out)
TopicVideosAnyTopic(topic) == DOMAIN videos
TopicVideos(topic) == {v \in DOMAIN videos : videos[v].topic = topic}

\* .order_by(Video.upload_date.desc()).all(): any order the sort allows
\* (rows with equal upload_date come in an order the store chooses).
AllVideosQuery(topic) ==
    {s \in Orderings(TopicVideos(topic)) :
        \A i, j \in 1..Len(s) :
            i < j => videos[s[i]].upload_date >= videos[s[j]].upload_date}

\* cooldown_date = datetime.utcnow() - timedelta(days=cooldown_days)
CooldownDate(utcnow, cooldown_days) == utcnow - cooldown_days

\* The comparison of the recent-use query.
\* (variant: an exclusive boundary)
WithinCooldownStrict(created_at, cooldown_date) == created_at > cooldown_date
WithinCooldown(created_at, cooldown_date) == created_at >= cooldown_date

\* session.query(compilation_videos).join(Compilation).filter(
\*     video_id == video.id, Compilation.created_at >= cooldown_date).first()
RecentUse(video_id, cooldown_date) ==
    \E cv \in compilation_videos : \E c \in compilations :
        /\ cv.compilation_id = c.id
        /\ cv.video_id = video_id
        /\ WithinCooldown(c.created_at, cooldown_date)

\* The two buckets of the partition loop, in query order.
Available(all_videos, cooldown_date) ==
    LET fresh(v) == ~RecentUse(v, cooldown_date)
    IN  SelectSeq(all_videos, fresh)

CooldownOverflow(all_videos, cooldown_date) ==
    LET used(v) == RecentUse(v, cooldown_date)
    IN  SelectSeq(all_videos, used)

\* random.shuffle(bucket): every order of the bucket is possible.
Shuffle(bucket) ==
    {[i \in 1..Len(bucket) |-> bucket[p[i]]] : p \in Orderings(1..Len(bucket))}

\* candidates = available + cooldown_overflow
\* (variant: the buckets concatenated the other way round)
CandidatesReversed(available, cooldown_overflow) == cooldown_overflow \o available
\* (variant: the cooling videos left out of the scan)
CandidatesFreshOnly(available, cooldown_overflow) == available
Candidates(available, cooldown_overflow) == available \o cooldown_overflow

\* vid_dur = video.duration if (video.duration and video.duration > 0)
\*           else DEFAULT_DURATION
\* (variant: only the truthiness test, `video.duration or DEFAULT_DURATION`)
VidDurTruthy(video_id) ==
    LET d == videos[video_id].duration
    IN  IF d # NULL /\ Val(d) # 0 THEN Val(d) ELSE DEFAULT_DURATION
VidDur(video_id) ==
    LET d == videos[video_id].duration
    IN  IF d # NULL /\ Val(d) # 0 /\ Val(d) > 0 THEN Val(d) ELSE DEFAULT_DURATION

\* if total_duration + vid_dur <= max_duration_seconds
\* (variants: the running total left out; a strict comparison)
AdmitsIgnoringTotal(total_duration, vid_dur, max_duration_seconds) ==
    vid_dur <= max_duration_seconds
AdmitsStrict(total_duration, vid_dur, max_duration_seconds) ==
    total_duration + vid_dur < max_duration_seconds
Admits(total_duration, vid_dur, max_duration_seconds) ==
    total_duration + vid_dur <= max_duration_seconds

\* The scan loop over candidates: selected and total_duration when it ends.
\* (variant: the scan ends at the first candidate that does not fit)
RECURSIVE ScanStopAtFirstReject(_, _, _, _)
ScanStopAtFirstReject(candidates, selected, total_duration, max_duration_seconds) ==
    IF candidates = <<>>
    THEN [selected |-> selected, total_duration |-> total_duration]
    ELSE LET video == Head(candidates)
             vid_dur == VidDur(video)
         IN  IF Admits(total_duration, vid_dur, max_duration_seconds)
             THEN ScanStopAtFirstReject(Tail(candidates), Append(selected, video),
                                        total_duration + vid_dur, max_duration_seconds)
             ELSE [selected |-> selected, total_duration |-> total_duration]

\* (variant: total_duration is not updated when a candidate is admitted)
RECURSIVE ScanLoopNoAccumulate(_, _, _, _)
ScanLoopNoAccumulate(candidates, selected, total_duration, max_duration_seconds) ==
    IF candidates = <<>>
    THEN [selected |-> selected, total_duration |-> total_duration]
    ELSE LET video == Head(candidates)
             vid_dur == VidDur(video)
         IN  IF Admits(total_duration, vid_dur, max_duration_seconds)
             THEN ScanLoopNoAccumulate(Tail(candidates), Append(selected, video),
                                       total_duration, max_duration_seconds)
             ELSE ScanLoopNoAccumulate(Tail(candidates), selected,
                                       total_duration, max_duration_seconds)

RECURSIVE ScanLoop(_, _, _, _)
ScanLoop(candidates, selected, total_duration, max_duration_seconds) ==
    IF candidates = <<>>
    THEN [selected |-> selected, total_duration |-> total_duration]
    ELSE LET video == Head(candidates)
             vid_dur == VidDur(video)
         IN  IF Admits(total_duration, vid_dur, max_duration_seconds)
             THEN ScanLoop(Tail(candidates), Append(selected, video),
                           total_duration + vid_dur, max_duration_seconds)
             ELSE ScanLoop(Tail(candidates), selected,
                           total_duration, max_duration_seconds)

GreedyScan(candidates, max_duration_seconds) ==
    ScanLoop(candidates, <<>>, 0, max_duration_seconds)

NoSelection ==
    [op |-> "none", topic |-> "", max_duration_seconds |-> 0, count |-> 0,
     cooldown_days |-> 0, utcnow |-> 0, available |-> <<>>,
     cooldown_overflow |-> <<>>, candidates |-> <<>>, selected |-> <<>>,
     total_duration |-> 0]

\* select_videos_within_duration(session, topic, max_duration_seconds,
\* cooldown_days) at time utcnow: the calls it can make of its shuffles, each
\* with the buckets, the candidate sequence and the returned list.
SelectVideosWithinDuration(topic, max_duration_seconds, cooldown_days, utcnow) ==
    LET cooldown_date == CooldownDate(utcnow, cooldown_days)
    IN  {[op |-> "within", topic |-> topic,
          max_duration_seconds |-> max_duration_seconds, count |-> 0,
          cooldown_days |-> cooldown_days, utcnow |-> utcnow,
          available |-> available, cooldown_overflow |-> cooldown_overflow,
          candidates |-> Candidates(available, cooldown_overflow),
          selected |-> GreedyScan(Candidates(available, cooldown_overflow),
                                  max_duration_seconds).selected,
          total_duration |-> GreedyScan(Candidates(available, cooldown_overflow),
                                        max_duration_seconds).total_duration] :
            <<available, cooldown_overflow>> \in
                UNION {Shuffle(Available(all_videos, cooldown_date))
                         \X Shuffle(CooldownOverflow(all_videos, cooldown_date)) :
                       all_videos \in AllVideosQuery(topic)}}

\* available[:count], for count >= 0
Take(s, count) == SubSeq(s, 1, IF count < Len(s) THEN count ELSE Len(s))

\* select_videos(session, topic, count, cooldown_days) at time utcnow.
SelectVideos(topic, count, cooldown_days, utcnow) ==
    LET cooldown_date == CooldownDate(utcnow, cooldown_days)
    IN  {LET available == Available(all_videos, cooldown_date)
             used == CooldownOverflow(all_videos, cooldown_date)
             padded == IF Len(available) < count
                       THEN available \o Take(used, count - Len(available))
                       ELSE available
         IN  [op |-> "topn", topic |-> topic, max_duration_seconds |-> 0,
              count |-> count, cooldown_days |-> cooldown_days, utcnow |-> utcnow,
              available |-> available, cooldown_overflow |-> used,
              candidates |-> padded, selected |-> Take(padded, count),
              total_duration |-> 0] :
            all_videos \in AllVideosQuery(topic)}

(***************************************************************************)
(* The selector specification: the two selectors called on a catalogue of  *)
(* one topic, with the ledger empty or holding one compilation.            *)
(***************************************************************************)
SelBudgets == {0, 3600, 7200, 8000}
CooldownDays == {0, 1, 2}

UploadDateOf(v) == (v + 1) \div 2

NoCompile ==
    [called |-> FALSE, video_files |-> {}, auto_mode |-> FALSE, tiers |-> <<>>,
     prompted |-> FALSE, typed |-> "", result |-> "None", output |-> NULL,
     printed |-> NULL]
NoRun ==
    [mode |-> "none", started_at |-> 0, seen |-> 0, topic |-> "", outcome |-> "none", error |-> "",
     output_file |-> "None", total_seconds |-> 0, video_files |-> <<>>,
     ledger_reached |-> FALSE, ledger_fail |-> 0, new_id |-> 0,
     warning |-> FALSE, session_closed |-> FALSE, cleaned |-> FALSE,
     probed |-> 0]
NoHistory == <<>>
NoDownload ==
    [op |-> "none", videos |-> <<>>, use_oauth |-> FALSE, calls |-> <<>>,
     downloaded |-> <<>>, raised |-> ""]
NoIngest ==
    [called |-> FALSE, batch |-> <<>>, before |-> <<>>, new_count |-> 0,
     raised |-> ""]
\* _load_json of a missing file: {}, every key absent
NoLastRun == [date |-> NULL, status |-> NULL, video_id |-> NULL, topic |-> NULL]
NoPick == [called |-> FALSE, topics_config |-> {}, chosen |-> NULL]
NoUpload == [called |-> FALSE, chunks |-> 0, sent |-> 0, retry_count |-> 0, last |-> 0, slept |-> 0, outcome |-> "none"]
NoAutomation ==
    [called |-> FALSE, force |-> FALSE, topic_arg |-> NULL, today |-> 0,
     found |-> NoLastRun, skipped |-> FALSE, network |-> FALSE, topic |-> NULL,
     marker_written |-> FALSE, ran |-> FALSE, run_failed |-> FALSE,
     upload_attempted |-> FALSE, uploaded |-> NULL, recorded |-> FALSE]

InitSelect ==
    /\ videos \in {[v \in 1..NumVideos |->
                      [duration |-> d[v], topic |-> "quiz",
                       upload_date |-> UploadDateOf(v)]] :
                   d \in [1..NumVideos -> DurationValues]}
    /\ \/ compilations = {} /\ compilation_videos = {}
       \/ /\ compilations = {[id |-> 1, topic |-> "quiz",
                              filename |-> <<"quiz", 0>>, video_count |-> 1,
                              created_at |-> 0]}
          /\ compilation_videos = {[compilation_id |-> 1, video_id |-> 1,
                                    added_at |-> 0]}
    /\ now = 1
    /\ sel = NoSelection
    /\ comp = NoCompile
    /\ run = NoRun
    /\ history = NoHistory
    /\ download_path = <<>>
    /\ dl = NoDownload
    /\ ingest = NoIngest
    /\ last_run = NoLastRun
    /\ auto = NoAutomation
    /\ pick = NoPick
    /\ upload = NoUpload

\* One call per drawn input: the selectors only read the store.
SelectWithinDurationCall ==
    /\ sel.op = "none"
    /\ \E topic \in Topics, max_duration_seconds \in SelBudgets,
          cooldown_days \in CooldownDays :
          sel' \in SelectVideosWithinDuration(topic, max_duration_seconds,
                                              cooldown_days, now)
    /\ UNCHANGED <<videos, compilations, compilation_videos, now, comp, run, history,
                 download_path, dl, ingest, last_run, auto, pick, upload>>

SelectVideosCall ==
    /\ sel.op = "none"
    /\ \E topic \in Topics, count \in 0..(NumVideos + 1),
          cooldown_days \in CooldownDays :
          sel' \in SelectVideos(topic, count, cooldown_days, now)
    /\ UNCHANGED <<videos, compilations, compilation_videos, now, comp, run, history,
                 download_path, dl, ingest, last_run, auto, pick, upload>>

NextSelect == SelectWithinDurationCall \/ SelectVideosCall

SpecSelect == InitSelect /\ [][NextSelect]_vars

(***************************************************************************)
(* The selectors called on a catalogue of five videos of 3000 s each, all  *)
(* of one topic, with the ledger empty, holding one use of video 1, or     *)
(* holding that use and a later one of video 5.                            *)
(***************************************************************************)
ExampleVideos == 1..5

InitExample ==
    /\ videos = [v \in ExampleVideos |->
                   [duration |-> Some(3000), topic |-> "quiz",
                    upload_date |-> UploadDateOf(v)]]
    /\ \/ compilations = {} /\ compilation_videos = {}
       \/ /\ compilations = {[id |-> 1, topic |-> "quiz",
                              filename |-> <<"quiz", 0>>, video_count |-> 1,
                              created_at |-> 0]}
          /\ compilation_videos = {[compilation_id |-> 1, video_id |-> 1,
                                    added_at |-> 0]}
       \/ /\ compilations = {[id |-> 1, topic |-> "quiz",
                              filename |-> <<"quiz", 0>>, video_count |-> 1,
                              created_at |-> 0],
                             [id |-> 2, topic |-> "quiz",
                              filename |-> <<"quiz", 1>>, video_count |-> 1,
                              created_at |-> 1]}
          /\ compilation_videos = {[compilation_id |-> 1, video_id |-> 1,
                                    added_at |-> 0],
                                   [compilation_id |-> 2, video_id |-> 5,
                                    added_at |-> 1]}
    /\ now = 1
    /\ sel = NoSelection
    /\ comp = NoCompile
    /\ run = NoRun
    /\ history = NoHistory
    /\ download_path = <<>>
    /\ dl = NoDownload
    /\ ingest = NoIngest
    /\ last_run = NoLastRun
    /\ auto = NoAutomation
    /\ pick = NoPick
    /\ upload = NoUpload

SpecExample == InitExample /\ [][NextSelect]_vars

(***************************************************************************)
(* The selectors called on catalogues whose duration column holds NULL, a  *)
(* negative number, zero or a positive number (the column is a nullable    *)
(* INTEGER; update_db stores what the scrape reports).                     *)
(***************************************************************************)
ColumnValues == {NULL, Some(-60), Some(0), Some(3000)}

InitColumn ==
    /\ videos \in {[v \in 1..NumVideos |->
                      [duration |-> d[v], topic |-> "quiz",
                       upload_date |-> UploadDateOf(v)]] :
                   d \in [1..NumVideos -> ColumnValues]}
    /\ \/ compilations = {} /\ compilation_videos = {}
       \/ /\ compilations = {[id |-> 1, topic |-> "quiz",
                              filename |-> <<"quiz", 0>>, video_count |-> 1,
                              created_at |-> 0]}
          /\ compilation_videos = {[compilation_id |-> 1, video_id |-> 1,
                                    added_at |-> 0]}
    /\ now = 1
    /\ sel = NoSelection
    /\ comp = NoCompile
    /\ run = NoRun
    /\ history = NoHistory
    /\ download_path = <<>>
    /\ dl = NoDownload
    /\ ingest = NoIngest
    /\ last_run = NoLastRun
    /\ auto = NoAutomation
    /\ pick = NoPick
    /\ upload = NoUpload

SpecColumn == InitColumn /\ [][NextSelect]_vars

(***************************************************************************)
(* compile_videos: the tiered fallback chain.                              *)
(*                                                                         *)
(* One transcoder invocation is subprocess.run(cmd, timeout=t): it either  *)
(* raises TimeoutExpired (only when t is not None) or returns an exit code *)
(* and the captured stderr text, and leaves the output file missing (NULL) *)
(* or with some size.                                                      *)
(***************************************************************************)
\* result.stderr (capture_output=True, text=True): empty or some text
Diagnostics == {"", "ffmpeg: error"}

OutputFiles ==
    {NULL, Some(MIN_OUTPUT_SIZE - 1), Some(MIN_OUTPUT_SIZE), Some(MIN_OUTPUT_SIZE + 1)}

\* timeout=600; m2_timeout = None if auto_mode else 3600;
\* m3_timeout = None if auto_mode else 7200
TierTimeout(tier, auto_mode) ==
    CASE tier = 1 -> Some(600)
      [] tier = 2 -> IF auto_mode THEN NULL ELSE Some(3600)
      [] tier = 3 -> IF auto_mode THEN NULL ELSE Some(7200)

TierOutcomes(timeout) ==
    {[timed_out |-> FALSE, returncode |-> rc, file |-> f, stderr |-> e] :
        rc \in {0, 1}, f \in OutputFiles, e \in Diagnostics}
    \cup (IF timeout = NULL THEN {}
          ELSE {[timed_out |-> TRUE, returncode |-> 1, file |-> f, stderr |-> ""] :
                   f \in OutputFiles})

\* result.returncode == 0 and output_filepath.exists()
\*     and output_filepath.stat().st_size > 1_000_000
\* (variant: a size equal to the threshold accepted)
Method1OkAtThreshold(o) ==
    o.returncode = 0 /\ o.file # NULL /\ Val(o.file) >= MIN_OUTPUT_SIZE
Method1Ok(o) ==
    o.returncode = 0 /\ o.file # NULL /\ Val(o.file) > MIN_OUTPUT_SIZE

\* (variant: the exit-code test inverted)
Method2OkInverted(o) ==
    o.returncode # 0 /\ o.file # NULL /\ Val(o.file) > MIN_OUTPUT_SIZE
Method2Ok(o) ==
    o.returncode = 0 /\ o.file # NULL /\ Val(o.file) > MIN_OUTPUT_SIZE

Method3Ok(o) ==
    o.returncode = 0 /\ o.file # NULL /\ Val(o.file) > MIN_OUTPUT_SIZE

\* input(...).strip().lower() on what the operator typed
Answers == {"y", " Y ", "n", "", "yes"}
StripLower(typed) ==
    CASE typed = " Y " -> "y"
      [] OTHER -> typed

\* response != 'y'
\* (variant: only the answer 'n' declines)
DeclinedOnlyOnN(typed) == StripLower(typed) = "n"
Declined(typed) == StripLower(typed) # "y"

\* subprocess.run(cmd, ...) of Method 1, Method 2, Method 3: one invocation
\* of the transcoder with the command of that tier.
\* (variant: the command of Method 1 run again by the later tiers)
InvocationOfMethod1(tier, auto_mode, o) ==
    [tier |-> 1, timeout |-> TierTimeout(tier, auto_mode), outcome |-> o]
Invocation(tier, auto_mode, o) ==
    [tier |-> tier, timeout |-> TierTimeout(tier, auto_mode), outcome |-> o]

\* if result.stderr: console.print(result.stderr[:200]) when the operator
\* declined, console.print(result.stderr[:300]) when all methods failed:
\* the text of the last transcoder result and the length it is cut to.
PrintedDiagnostic(tiers, prompted, result) ==
    IF result # "None" \/ tiers = <<>> THEN NULL
    ELSE LET stderr == tiers[Len(tiers)].outcome.stderr
         IN  IF stderr = "" THEN NULL
             ELSE Some([text |-> stderr,
                        limit |-> IF prompted /\ Len(tiers) = 2 THEN 200 ELSE 300])

CompileReturn(video_files, auto_mode, tiers, prompted, typed, result, output) ==
    [called |-> TRUE, video_files |-> video_files, auto_mode |-> auto_mode,
     tiers |-> tiers, prompted |-> prompted, typed |-> typed,
     result |-> result, output |-> output,
     printed |-> PrintedDiagnostic(tiers, prompted, result)]

\* compile_videos(video_files, topic, output_path, auto_mode) when the three
\* transcoder invocations would end as o1, o2, o3 and the operator would type
\* `typed`: the invocations made, whether the operator was asked, the result
\* ("path": output_filepath, "None", or "raised": TimeoutExpired left the
\* function) and the file at output_filepath when the function is left.
CompileVideos(video_files, auto_mode, o1, o2, o3, typed) ==
    LET t1 == <<Invocation(1, auto_mode, o1)>>
        t2 == Append(t1, Invocation(2, auto_mode, o2))
        t3 == Append(t2, Invocation(3, auto_mode, o3))
        ret(tiers, prompted, answer, result, output) ==
            CompileReturn(video_files, auto_mode, tiers, prompted, answer,
                          result, output)
    IN  IF video_files = {} THEN ret(<<>>, FALSE, "", "None", NULL)
        ELSE IF o1.timed_out THEN ret(t1, FALSE, "", "raised", o1.file)
        ELSE IF Method1Ok(o1) THEN ret(t1, FALSE, "", "path", o1.file)
        ELSE IF o2.timed_out THEN ret(t2, FALSE, "", "raised", o2.file)
        ELSE IF Method2Ok(o2) THEN ret(t2, FALSE, "", "path", o2.file)
        ELSE IF ~auto_mode /\ Declined(typed)
             THEN ret(t2, TRUE, typed, "None", o2.file)
        ELSE IF o3.timed_out THEN ret(t3, ~auto_mode, IF auto_mode THEN "" ELSE typed,
                                      "raised", o3.file)
        ELSE IF Method3Ok(o3) THEN ret(t3, ~auto_mode, IF auto_mode THEN "" ELSE typed,
                                       "path", o3.file)
        ELSE ret(t3, ~auto_mode, IF auto_mode THEN "" ELSE typed, "None", o3.file)

(***************************************************************************)
(* The compile specification: compile_videos called once on drawn inputs.  *)
(***************************************************************************)
InitCompile ==
    /\ videos = [v \in 1..NumVideos |->
                   [duration |-> Some(3000), topic |-> "quiz",
                    upload_date |-> UploadDateOf(v)]]
    /\ compilations = {}
    /\ compilation_videos = {}
    /\ now = 0
    /\ sel = NoSelection
    /\ comp = NoCompile
    /\ run = NoRun
    /\ history = NoHistory
    /\ download_path = <<>>
    /\ dl = NoDownload
    /\ ingest = NoIngest
    /\ last_run = NoLastRun
    /\ auto = NoAutomation
    /\ pick = NoPick
    /\ upload = NoUpload

CompileVideosCall ==
    /\ ~comp.called
    /\ \E video_files \in SUBSET (1..NumVideos), auto_mode \in BOOLEAN,
          typed \in Answers :
          \E o1 \in TierOutcomes(TierTimeout(1, auto_mode)),
             o2 \in TierOutcomes(TierTimeout(2, auto_mode)),
             o3 \in TierOutcomes(TierTimeout(3, auto_mode)) :
             comp' = CompileVideos(video_files, auto_mode, o1, o2, o3, typed)
    /\ UNCHANGED <<videos, compilations, compilation_videos, now, sel, run, history,
                 download_path, dl, ingest, last_run, auto, pick, upload>>

NextCompile == CompileVideosCall

SpecCompile == InitCompile /\ [][NextCompile]_vars

(***************************************************************************)
(* The ledger: one session transaction over the two tables.                *)
(***************************************************************************)
Database == [compilations |-> compilations, compilation_videos |-> compilation_videos]

\* compilations.id is an INTEGER PRIMARY KEY: the next row id.
NextId(db) ==
    IF db.compilations = {} THEN 1
    ELSE 1 + CHOOSE m \in {c.id : c \in db.compilations} :
                 \A c \in db.compilations : c.id <= m

\* Compilation(topic=topic, filename=output_file.name,
\*             video_count=len(video_files)); created_at defaults to utcnow
NewCompilation(db, topic, filename, video_files, utcnow) ==
    [id |-> NextId(db), topic |-> topic, filename |-> filename,
     video_count |-> Len(video_files), created_at |-> utcnow]

\* compilation_videos.insert().values(compilation_id=compilation.id,
\*                                    video_id=video_id)
\* (variant: the row written without the flushed compilation id)
JunctionRowUnlinked(compilation, video_id, utcnow) ==
    [compilation_id |-> 0, video_id |-> video_id, added_at |-> utcnow]
JunctionRow(compilation, video_id, utcnow) ==
    [compilation_id |-> compilation.id, video_id |-> video_id, added_at |-> utcnow]

\* The steps of the transaction: 1 is session.add + session.flush, 1 + k the
\* k-th junction insert, Len(video_files) + 2 the session.commit.
\* fail_at names the step that raises; 0 when none does.
LedgerSteps(video_files) == 0..(Len(video_files) + 2)

\* What the session has written, uncommitted, when step fail_at raises (or
\* when the commit is reached).
Pending(db, topic, filename, video_files, utcnow, fail_at) ==
    LET c == NewCompilation(db, topic, filename, video_files, utcnow)
        n == Len(video_files)
        done == IF fail_at = 0 \/ fail_at = n + 2 THEN n
                ELSE IF fail_at = 1 THEN 0 ELSE fail_at - 2
    IN  [compilations |-> IF fail_at = 1 THEN {} ELSE {c},
         compilation_videos |->
             {JunctionRow(c, video_files[k], utcnow) : k \in 1..done}]

\* session.commit(): the pending rows become durable together.
\* (variant: only the Compilation row of the session is committed)
SessionCommitCompilationOnly(db, pending) ==
    [compilations |-> db.compilations \cup pending.compilations,
     compilation_videos |-> db.compilation_videos]
SessionCommit(db, pending) ==
    [compilations |-> db.compilations \cup pending.compilations,
     compilation_videos |-> db.compilation_videos \cup pending.compilation_videos]

\* The session ends without a commit (session.close() in run_auto's finally,
\* the process ending in main): the open transaction is rolled back.
\* (variant: the uncommitted rows stay, as on an autocommit connection)
KeepPending(db, pending) ==
    [compilations |-> db.compilations \cup pending.compilations,
     compilation_videos |-> db.compilation_videos \cup pending.compilation_videos]
Rollback(db, pending) == db

\* The tables after the record-compilation block.
RecordCompilation(db, topic, filename, video_files, utcnow, fail_at) ==
    LET pending == Pending(db, topic, filename, video_files, utcnow, fail_at)
    IN  IF fail_at = 0 THEN SessionCommit(db, pending) ELSE Rollback(db, pending)

(***************************************************************************)
(* download_video and download_videos_sequential.                          *)
(*                                                                         *)
(* A video's youtube_id is unique and not NULL: the model names a video by *)
(* its id. The download directory is the sequence of its *.mp4 files in    *)
(* the order Path.glob lists them; only the order among the files that     *)
(* hold one youtube_id matters to the code, and it stays as it is while    *)
(* those files stay.                                                       *)
(***************************************************************************)
\* f"{safe_title}_{video.youtube_id}.mp4" (kind "final") and
\* f"temp_video_{video.youtube_id}.mp4" (kind "temp_video")
File(video, kind) == [youtube_id |-> video, kind |-> kind]

\* for file in Path(download_path).glob("*.mp4"):
\*     if video.youtube_id in file.name
Tagged(dir, video) ==
    LET hit(f) == f.youtube_id = video
    IN  SelectSeq(dir, hit)

\* video.title[:60], video.title[:40]: a TypeError when the title is NULL
HasTitle(video) == videos[video].title # NULL

\* What an exception text of a failed attempt holds of "bot", "400", "429".
ErrorTexts == {{}, {"bot"}, {"400"}, {"429"}}

\* One pass of the try block: the adaptive streams were fetched and merged,
\* the progressive stream was fetched, there was no stream at all, or an
\* exception was raised, the temporary video stream written or not.
AttemptOutcomes ==
    {[kind |-> k, text |-> {}, temp_left |-> FALSE] :
        k \in {"adaptive", "progressive", "no_stream"}}
    \cup {[kind |-> "error", text |-> t, temp_left |-> l] :
            t \in ErrorTexts, l \in BOOLEAN}

\* A new file appears in the listing before or after the files of its id.
AddFile(dir, f) ==
    IF f \in Range(dir) THEN {dir}
    ELSE IF Tagged(dir, f.youtube_id) = <<>> THEN {Append(dir, f)}
    ELSE {<<f>> \o dir, Append(dir, f)}

WithoutFile(dir, f) ==
    LET other(g) == g # f
    IN  SelectSeq(dir, other)

\* The directory after one pass of the try block.
AfterAttempt(dir, video, o) ==
    CASE o.kind = "adaptive" ->
             AddFile(WithoutFile(dir, File(video, "temp_video")), File(video, "final"))
      [] o.kind = "progressive" -> AddFile(dir, File(video, "final"))
      [] o.kind = "no_stream" -> {dir}
      [] OTHER -> IF o.temp_left THEN AddFile(dir, File(video, "temp_video"))
                  ELSE {dir}

\* The sleeps of the except block that depend on the error text.
HandlerSleep(text) ==
    IF "bot" \in text THEN 30
    ELSE IF "400" \in text THEN 5
    ELSE IF "429" \in text THEN 20
    ELSE 0

\* if attempt < retry_attempts - 1: time.sleep(3)
RetrySleep(attempt, retry_attempts) ==
    IF attempt < retry_attempts - 1 THEN 3 ELSE 0

\* download_video(video, download_path, use_oauth=True,
\*                retry_attempts=retry_attempts - 1)
\* (variant: the re-entry is given the whole budget again)
ReentryBudgetFull(retry_attempts) == retry_attempts
ReentryBudget(retry_attempts) == retry_attempts - 1

\* What one call of download_video did: whether it returned from the cache
\* check, the passes of the try block of this call and of its re-entry, the
\* returned path (NULL: None), the exception that left it ("": none) and the
\* directory before and after.
DownloadReturn(video, use_oauth, retry_attempts, cached, attempts, result, raised, before, dir) ==
    [video |-> video, use_oauth |-> use_oauth, retry_attempts |-> retry_attempts,
     cached |-> cached, reentered |-> FALSE, attempts |-> attempts,
     result |-> result, raised |-> raised, before |-> before, dir |-> dir]

RECURSIVE DownloadVideo(_, _, _, _, _)
RECURSIVE AttemptLoop(_, _, _, _, _, _, _, _)

\* for attempt in range(retry_attempts): ... ; return None
AttemptLoop(video, before, dir, use_oauth, retry_attempts, attempt, made, env) ==
    LET ret(attempts, result, d) ==
            DownloadReturn(video, use_oauth, retry_attempts, FALSE, attempts,
                           result, "", before, d)
        pass(o, slept) ==
            Append(made, [attempt |-> attempt, use_oauth |-> use_oauth,
                          outcome |-> o, slept |-> slept])
        step(o, d) ==
            IF o.kind \in {"adaptive", "progressive"}
            THEN {ret(pass(o, 0), Some(File(video, "final")), d)}
            ELSE IF o.kind = "no_stream"
            THEN {ret(pass(o, 0), NULL, d)}
            ELSE IF "bot" \in o.text /\ attempt = 0 /\ ~use_oauth
            THEN {[r EXCEPT !.use_oauth = use_oauth,
                            !.retry_attempts = retry_attempts,
                            !.cached = FALSE,
                            !.reentered = TRUE,
                            !.attempts = pass(o, 0) \o r.attempts,
                            !.before = before] :
                    r \in DownloadVideo(video, d, TRUE,
                                        ReentryBudget(retry_attempts), env)}
            ELSE LET slept == HandlerSleep(o.text)
                                + RetrySleep(attempt, retry_attempts)
                 IN  IF attempt < retry_attempts - 1
                     THEN AttemptLoop(video, before, d, use_oauth, retry_attempts,
                                      attempt + 1, pass(o, slept), env)
                     ELSE {ret(pass(o, slept), NULL, d)}
    IN  IF attempt >= retry_attempts THEN {ret(made, NULL, dir)}
        ELSE UNION {UNION {step(o, d) : d \in AfterAttempt(dir, video, o)} :
                    o \in env.attempts}

\* download_video(video, download_path, use_oauth, retry_attempts) on the
\* directory dir, in an environment env (the listing can fail or not, the
\* passes of the try block can end as env.attempts): the ways it can end.
DownloadVideo(video, dir, use_oauth, retry_attempts, env) ==
    LET ret(cached, result, raised) ==
            DownloadReturn(video, use_oauth, retry_attempts, cached, <<>>,
                           result, raised, dir, dir)
        listed(l) ==
            IF l = "OSError" THEN {ret(FALSE, NULL, "OSError")}
            ELSE IF Tagged(dir, video) # <<>>
            THEN IF HasTitle(video)
                 THEN {ret(TRUE, Some(Head(Tagged(dir, video))), "")}
                 ELSE {ret(TRUE, NULL, "TypeError")}
            ELSE IF ~HasTitle(video) THEN {ret(FALSE, NULL, "TypeError")}
            ELSE AttemptLoop(video, dir, dir, use_oauth, retry_attempts, 0, <<>>, env)
    IN  UNION {listed(l) : l \in env.listing}

\* The for loop of download_videos_sequential over the videos still to do:
\* the calls made, the dict `downloaded` as pairs in insertion order, the
\* exception that left the loop ("": none) and the directory afterwards.
RECURSIVE DownloadLoop(_, _, _, _, _, _)
DownloadLoop(todo, dir, use_oauth, calls, downloaded, env) ==
    IF todo = <<>>
    THEN {[calls |-> calls, downloaded |-> downloaded, raised |-> "", dir |-> dir]}
    ELSE LET video == Head(todo)
             after(r) ==
                 IF r.raised = ""
                 THEN DownloadLoop(Tail(todo), r.dir, use_oauth, Append(calls, r),
                                   IF r.result # NULL
                                   THEN Append(downloaded, <<video, Val(r.result)>>)
                                   ELSE downloaded,
                                   env)
                 ELSE IF HasTitle(video)
                 THEN DownloadLoop(Tail(todo), r.dir, use_oauth, Append(calls, r),
                                   downloaded, env)
                 ELSE {[calls |-> Append(calls, r), downloaded |-> downloaded,
                        raised |-> "TypeError", dir |-> r.dir]}
         IN  UNION {after(r) : r \in DownloadVideo(video, dir, use_oauth, 3, env)}

(***************************************************************************)
(* The download specification: download_video called, and called again for *)
(* the same video, and download_videos_sequential called on a list, on a   *)
(* directory that holds files of earlier runs or none.                     *)
(***************************************************************************)
\* The environment of a first direct call, and that of a repeated call and
\* of the calls of a list (a pass succeeds or is rate limited).
CallEnvironment == [listing |-> {"ok", "OSError"}, attempts |-> AttemptOutcomes]
ListEnvironment ==
    [listing |-> {"ok", "OSError"},
     attempts |-> {o \in AttemptOutcomes :
                     \/ o.kind = "adaptive"
                     \/ o.kind = "error" /\ o.text = {"429"} /\ ~o.temp_left}]

\* (use_oauth, retry_attempts) as the callers pass them: the default budget
\* from download_videos_sequential, one less with OAuth from the re-entry.
CallArguments == {<<TRUE, 3>>, <<FALSE, 3>>, <<TRUE, 2>>}

\* The lists download_videos_sequential is given: selections, without
\* repetition.
VideoLists == UNION {Orderings(S) : S \in SUBSET (1..NumVideos)}

InitDirectories ==
    {<<>>,
     <<File(1, "final")>>,
     <<File(2, "final")>>,
     <<File(2, "temp_video"), File(2, "final")>>,
     <<File(2, "final"), File(2, "temp_video")>>,
     <<File(1, "final"), File(2, "final")>>}

InitDownload ==
    /\ videos \in {[v \in 1..NumVideos |->
                      [duration |-> Some(3000),
                       topic |-> IF v = 1 THEN "general" ELSE "quiz",
                       upload_date |-> UploadDateOf(v),
                       title |-> IF v = 1 THEN t ELSE Some("title")]] :
                   t \in {NULL, Some("title")}}
    /\ compilations = {}
    /\ compilation_videos = {}
    /\ now = 0
    /\ sel = NoSelection
    /\ comp = NoCompile
    /\ run = NoRun
    /\ history = NoHistory
    /\ download_path \in InitDirectories
    /\ dl = NoDownload
    /\ ingest = NoIngest
    /\ last_run = NoLastRun
    /\ auto = NoAutomation
    /\ pick = NoPick
    /\ upload = NoUpload

DownloadVideoCall ==
    /\ dl.op = "none"
    /\ \E video \in DOMAIN videos, args \in CallArguments :
       \E r \in DownloadVideo(video, download_path, args[1], args[2], CallEnvironment) :
          /\ dl' = [op |-> "video", videos |-> <<video>>, use_oauth |-> args[1],
                    calls |-> <<r>>, downloaded |-> <<>>, raised |-> r.raised]
          /\ download_path' = r.dir
    /\ UNCHANGED <<videos, compilations, compilation_videos, now, sel, comp, run, history, ingest, last_run, auto, pick, upload>>

\* The same call once more, on the directory the first call left.
DownloadVideoAgain ==
    /\ dl.op = "video"
    /\ Len(dl.calls) = 1
    /\ \E r \in DownloadVideo(dl.calls[1].video, download_path, dl.calls[1].use_oauth,
                              dl.calls[1].retry_attempts, ListEnvironment) :
          /\ dl' = [dl EXCEPT !.calls = Append(@, r), !.raised = r.raised]
          /\ download_path' = r.dir
    /\ UNCHANGED <<videos, compilations, compilation_videos, now, sel, comp, run, history, ingest, last_run, auto, pick, upload>>

DownloadVideosSequentialCall ==
    /\ dl.op = "none"
    /\ \E list \in VideoLists, use_oauth \in BOOLEAN :
       \E r \in DownloadLoop(list, download_path, use_oauth, <<>>, <<>>, ListEnvironment) :
          /\ dl' = [op |-> "sequential", videos |-> list, use_oauth |-> use_oauth,
                    calls |-> r.calls, downloaded |-> r.downloaded,
                    raised |-> r.raised]
          /\ download_path' = r.dir
    /\ UNCHANGED <<videos, compilations, compilation_videos, now, sel, comp, run, history, ingest, last_run, auto, pick, upload>>

NextDownload ==
    DownloadVideoCall \/ DownloadVideoAgain \/ DownloadVideosSequentialCall

SpecDownload == InitDownload /\ [][NextDownload]_vars

(***************************************************************************)
(* Acquisition and duration probe, as the runs see them.                   *)
(***************************************************************************)
\* video_files.keys(), video_files.values(): the dict that
\* download_videos_sequential returned, in insertion order.
\* (variant: the first key left out)
KeysAfterFirst(downloaded) == [i \in 1..(Len(downloaded) - 1) |-> downloaded[i + 1][1]]
Keys(downloaded) == [i \in 1..Len(downloaded) |-> downloaded[i][1]]
Values(downloaded) == {downloaded[i][2] : i \in 1..Len(downloaded)}

\* cleanup_downloads(download_path, keep_files): every *.mp4 file that is
\* not kept is unlinked.
CleanupDownloads(dir, keep_files) ==
    LET kept(f) == f \in keep_files
    IN  SelectSeq(dir, kept)

RECURSIVE SumRecorded(_)
SumRecorded(ids) ==
    IF ids = <<>> THEN 0
    ELSE LET d == videos[Head(ids)].duration
         IN  (IF d # NULL /\ Val(d) # 0 THEN Val(d) ELSE 3600)
             + SumRecorded(Tail(ids))

\* total_seconds = get_video_duration(output_file); if it is 0, the sum of
\* (v.duration or 3600) over the selected videos that were downloaded.
\* (variant: the probed value kept as it is)
TotalSecondsProbedOnly(probed, video_files) == probed
TotalSeconds(probed, video_files) ==
    IF probed = 0 THEN SumRecorded(video_files) ELSE probed

\* timestamp = datetime.now().strftime("%Y-%m-%d_%H-%M-%S")
\* f"{topic}_compilation_{timestamp}.mp4"
\* The timestamp is the reading of the local clock when compile_videos
\* starts, cut to the second: the name holds nothing else that tells two
\* runs apart. The clock of the model stands for that reading; two runs that
\* start with no Tick between them read the same timestamp.
OutputFilename(topic, timestamp) == <<topic, timestamp>>

(***************************************************************************)
(* The runs. A run is one call of run_auto (mode "auto") or of main (mode  *)
(* "main"); it starts at now, takes `elapsed` until the ledger block, and  *)
(* ends as                                                                 *)
(*   "returned"  run_auto returned (output_file, total_seconds, ids)       *)
(*   "done"      main printed Done and returned                            *)
(*   "raised"    an exception left the function                            *)
(*   "exit0", "exit1"  main called exit(0), exit(1)                        *)
(* probed is what get_video_duration returned for the output file (0.0 on  *)
(* failure, and for a run that did not get that far).                      *)
(***************************************************************************)
RunRecord(mode, topic, outcome, error, output_file, total_seconds, video_files, ledger_reached, ledger_fail, new_id, warning, session_closed, cleaned) ==
    [mode |-> mode, started_at |-> now, seen |-> Len(history), topic |-> topic, outcome |-> outcome, error |-> error,
     output_file |-> output_file, total_seconds |-> total_seconds,
     video_files |-> video_files, ledger_reached |-> ledger_reached,
     ledger_fail |-> ledger_fail, new_id |-> new_id, warning |-> warning,
     session_closed |-> session_closed, cleaned |-> cleaned, probed |-> 0]

\* raise Exception("..."): the text the exception carries to the caller is
\* the literal message.
ExceptionText(error) == {error}

\* run_auto from the download on, given the selection s.
RunAutoEnd(topic, s, d, c, probed, fail_at) ==
    LET video_files == Keys(d.downloaded)
    IN
    IF s.selected = <<>>
    THEN RunRecord("auto", topic, "raised", "No videos found", "None", 0,
                   <<>>, FALSE, 0, 0, FALSE, TRUE, FALSE)
    ELSE IF d.raised # ""
    THEN RunRecord("auto", topic, "raised", d.raised, "None", 0,
                   <<>>, FALSE, 0, 0, FALSE, FALSE, FALSE)
    ELSE IF video_files = <<>>
    THEN RunRecord("auto", topic, "raised", "No videos downloaded", "None", 0,
                   video_files, FALSE, 0, 0, FALSE, TRUE, FALSE)
    ELSE IF c.result = "raised"
    THEN RunRecord("auto", topic, "raised", "TimeoutExpired", "None", 0,
                   video_files, FALSE, 0, 0, FALSE, FALSE, FALSE)
    ELSE IF c.result = "None"
    THEN RunRecord("auto", topic, "raised", "Compilation failed", "None", 0,
                   video_files, FALSE, 0, 0, FALSE, TRUE, TRUE)
    ELSE [RunRecord("auto", topic, "returned", "", "path",
                    TotalSeconds(probed, video_files), video_files, TRUE,
                    fail_at, NextId(Database), fail_at # 0, TRUE, TRUE)
          EXCEPT !.probed = probed]

\* main from the download on, given the selection s cut to `count`.
RunMainEnd(topic, selected, d, c, fail_at) ==
    LET video_files == Keys(d.downloaded)
    IN
    IF topic \notin Topics
    THEN RunRecord("main", topic, "exit1", "not a configured topic", "None", 0,
                   <<>>, FALSE, 0, 0, FALSE, FALSE, FALSE)
    ELSE IF selected = <<>>
    THEN RunRecord("main", topic, "exit0", "No videos found", "None", 0,
                   <<>>, FALSE, 0, 0, FALSE, FALSE, FALSE)
    ELSE IF d.raised # ""
    THEN RunRecord("main", topic, "raised", d.raised, "None", 0,
                   <<>>, FALSE, 0, 0, FALSE, FALSE, FALSE)
    ELSE IF video_files = <<>>
    THEN RunRecord("main", topic, "exit1", "No videos downloaded", "None", 0,
                   video_files, FALSE, 0, 0, FALSE, FALSE, FALSE)
    ELSE IF c.result = "raised"
    THEN RunRecord("main", topic, "raised", "TimeoutExpired", "None", 0,
                   video_files, FALSE, 0, 0, FALSE, FALSE, FALSE)
    ELSE IF c.result = "None"
    THEN RunRecord("main", topic, "exit1", "", "None", 0,
                   video_files, FALSE, 0, 0, FALSE, FALSE, FALSE)
    ELSE IF fail_at # 0
    THEN RunRecord("main", topic, "raised", "ledger", "path", 0,
                   video_files, TRUE, fail_at, NextId(Database), FALSE, FALSE, FALSE)
    ELSE RunRecord("main", topic, "done", "", "path", 0,
                   video_files, TRUE, 0, NextId(Database), FALSE, TRUE, TRUE)

\* The tables and the history after a run that ended as r at time t.
LedgerAfter(r, t) ==
    IF r.ledger_reached
    THEN RecordCompilation(Database, r.topic, OutputFilename(r.topic, t),
                           r.video_files, t, r.ledger_fail)
    ELSE Database

HistoryAfter(r, t) ==
    IF r.ledger_reached /\ r.ledger_fail = 0
    THEN Append(history, [topic |-> r.topic, members |-> Range(r.video_files),
                          at |-> t])
    ELSE history

\* What the environment of a run can do in the run specification: the
\* transcoder outcomes per tier (Tier 1 succeeds, fails or times out, Tiers 2
\* and 3 fail, a failure comes with diagnostic text; the compile
\* specification draws every outcome), the operator's
\* answers, the probe results (0: the probe failed), the budgets and
\* cooldowns of the configuration.
RunOutcomes(tier, auto_mode) ==
    {o \in TierOutcomes(TierTimeout(tier, auto_mode)) :
        /\ o.file \in {NULL, Some(MIN_OUTPUT_SIZE + 1)}
        /\ o.returncode = 0 <=> o.file # NULL
        /\ ~o.timed_out => (o.stderr = "" <=> o.returncode = 0)
        /\ tier > 1 => o.returncode # 0 /\ ~o.timed_out}
RunAnswers == {"y", "n"}
RunBudgets == {2000, 7200}
RunCooldowns == {1, 2}
RunCounts == {0, 1, 10}
Probes == {0, 6100}

\* The ways compile_videos can end in a run.
CompileResults(video_files, auto_mode) ==
    {CompileVideos(Range(video_files), auto_mode, o1, o2, o3, typed) :
        o1 \in RunOutcomes(1, auto_mode), o2 \in RunOutcomes(2, auto_mode),
        o3 \in RunOutcomes(3, auto_mode),
        typed \in IF auto_mode THEN {""} ELSE RunAnswers}

\* The retrievals of a run: the listing works and a video resolves at the
\* first pass or has no stream (the download specification draws every
\* outcome); the operator of main answers the OAuth question with yes.
RunEnvironment ==
    [listing |-> {"ok"},
     attempts |-> {o \in AttemptOutcomes : o.kind \in {"adaptive", "no_stream"}}]
RunOAuth == {TRUE}

\* download_videos_sequential(videos, cfg['download_path'], use_oauth) as
\* a run calls it: not at all for an empty selection.
RunDownloads(selected, use_oauth) ==
    DownloadLoop(selected, download_path, use_oauth, <<>>, <<>>, RunEnvironment)

\* (variant: the retrieval called before the selection is looked at)
DownloadOfRunAlways(selected, use_oauth, d) ==
    [op |-> "sequential", videos |-> selected, use_oauth |-> use_oauth,
     calls |-> d.calls, downloaded |-> d.downloaded, raised |-> d.raised]
DownloadOfRun(selected, use_oauth, d) ==
    IF selected = <<>> THEN NoDownload
    ELSE [op |-> "sequential", videos |-> selected, use_oauth |-> use_oauth,
          calls |-> d.calls, downloaded |-> d.downloaded, raised |-> d.raised]

\* The download directory after a run that ended as r: run_auto removes
\* every file, main keeps the files it compiled.
DirectoryAfter(r, d) ==
    IF ~r.cleaned THEN d.dir
    ELSE IF r.mode = "auto" THEN CleanupDownloads(d.dir, {})
    ELSE CleanupDownloads(d.dir, Values(d.downloaded))

\* A run starts in a fresh process: nothing of an earlier run is in memory.
Idle == run.mode = "none" /\ ~auto.called /\ ~pick.called /\ ~upload.called

\* run_auto(topic, max_hours, cfg): what one call does to the tables, the
\* download directory and the records of the run.
RunAutoOn(topic, max_duration_seconds, cooldown_days) ==
    \E s \in SelectVideosWithinDuration(topic, max_duration_seconds,
                                        cooldown_days, now) :
    \E d \in RunDownloads(s.selected, TRUE) :
       LET video_files == Keys(d.downloaded)
       IN  \E c \in CompileResults(video_files, TRUE) :
           \E fail_at \in IF c.result = "path"
                          THEN LedgerSteps(video_files) ELSE {0},
              probed \in IF c.result = "path" THEN Probes ELSE {0} :
           LET r == RunAutoEnd(topic, s, d, c, probed, fail_at)
           IN  /\ sel' = s
               /\ dl' = DownloadOfRun(s.selected, TRUE, d)
               /\ comp' = IF video_files = <<>> \/ d.raised # ""
                          THEN NoCompile ELSE c
               /\ run' = r
               /\ compilations' = LedgerAfter(r, now).compilations
               /\ compilation_videos' = LedgerAfter(r, now).compilation_videos
               /\ history' = HistoryAfter(r, now)
               /\ download_path' = DirectoryAfter(r, d)

RunAuto ==
    /\ Idle
    /\ Cardinality(compilations) < MaxComps
    /\ \E topic \in Topics, max_duration_seconds \in RunBudgets,
          cooldown_days \in RunCooldowns :
          RunAutoOn(topic, max_duration_seconds, cooldown_days)
    /\ UNCHANGED <<videos, now, ingest, last_run, auto, pick, upload>>

RunMain ==
    /\ Idle
    /\ Cardinality(compilations) < MaxComps
    /\ \E topic \in Topics \cup {"unknown"}, max_duration_seconds \in RunBudgets,
          cooldown_days \in RunCooldowns, count \in RunCounts,
          use_oauth \in RunOAuth :
       \E s \in SelectVideosWithinDuration(topic, max_duration_seconds,
                                           cooldown_days, now) :
       \E d \in RunDownloads(Take(s.selected, count), use_oauth) :
          LET selected == Take(s.selected, count)
              video_files == Keys(d.downloaded)
          IN  \E c \in CompileResults(video_files, FALSE) :
              \E fail_at \in IF c.result = "path"
                             THEN LedgerSteps(video_files) ELSE {0} :
              LET r == RunMainEnd(topic, selected, d, c, fail_at)
              IN  /\ sel' = IF topic \in Topics THEN s ELSE NoSelection
                  /\ dl' = IF topic \in Topics
                           THEN DownloadOfRun(selected, use_oauth, d)
                           ELSE NoDownload
                  /\ comp' = IF video_files = <<>> \/ d.raised # ""
                             THEN NoCompile ELSE c
                  /\ run' = r
                  /\ compilations' = LedgerAfter(r, now).compilations
                  /\ compilation_videos' = LedgerAfter(r, now).compilation_videos
                  /\ history' = HistoryAfter(r, now)
                  /\ download_path' = DirectoryAfter(r, d)
                  /\ UNCHANGED <<videos, now, ingest, last_run, auto, pick, upload>>

\* The process of the run ends; only the tables outlive it. The runs of
\* this specification start on an empty download directory: the files a run
\* left there are removed before the next one (the download specification
\* starts on directories that hold files of earlier runs).
ProcessExit ==
    /\ ~Idle
    /\ sel' = NoSelection
    /\ comp' = NoCompile
    /\ run' = NoRun
    /\ dl' = NoDownload
    /\ download_path' = <<>>
    /\ auto' = NoAutomation
    /\ pick' = NoPick
    /\ upload' = NoUpload
    /\ UNCHANGED <<videos, compilations, compilation_videos, now, history, ingest, last_run>>

\* Time passes between runs.
Tick ==
    /\ Idle
    /\ now < MaxTime
    /\ now' = now + 1
    /\ UNCHANGED <<videos, compilations, compilation_videos, sel, comp, run, history,
                 download_path, dl, ingest, last_run, auto, pick, upload>>

Init ==
    /\ videos = [v \in 1..NumVideos |->
                   [duration |-> IF v = 1 THEN NULL
                                 ELSE IF v = 2 THEN Some(0) ELSE Some(3000),
                    topic |-> IF v = 1 THEN "general" ELSE "quiz",
                    upload_date |-> UploadDateOf(v),
                    title |-> Some("title")]]
    /\ compilations = {}
    /\ compilation_videos = {}
    /\ now = 0
    /\ sel = NoSelection
    /\ comp = NoCompile
    /\ run = NoRun
    /\ history = NoHistory
    /\ download_path = <<>>
    /\ dl = NoDownload
    /\ ingest = NoIngest
    /\ last_run = NoLastRun
    /\ auto = NoAutomation
    /\ pick = NoPick
    /\ upload = NoUpload

Next == RunAuto \/ RunMain \/ ProcessExit \/ Tick

Spec == Init /\ [][Next]_vars

\* The runs on a catalogue that holds a row without title (update_db.py
\* stores what the channel listing gave, title is nullable, and a video
\* without title is given the topic "general").
InitUntitled ==
    /\ videos = [v \in 1..NumVideos |->
                   [duration |-> Some(3000),
                    topic |-> IF v <= 2 THEN "general" ELSE "quiz",
                    upload_date |-> UploadDateOf(v),
                    title |-> IF v = 1 THEN NULL ELSE Some("title")]]
    /\ compilations = {}
    /\ compilation_videos = {}
    /\ now = 0
    /\ sel = NoSelection
    /\ comp = NoCompile
    /\ run = NoRun
    /\ history = NoHistory
    /\ download_path = <<>>
    /\ dl = NoDownload
    /\ ingest = NoIngest
    /\ last_run = NoLastRun
    /\ auto = NoAutomation
    /\ pick = NoPick
    /\ upload = NoUpload

SpecUntitled == InitUntitled /\ [][Next]_vars

(***************************************************************************)
(* automation.py: the daily run. The date of today is the clock of the     *)
(* model (a day per unit). The catalogue was refreshed within the last     *)
(* seven days, so db_needs_update() is False and main does not start       *)
(* update_db.py (the ingest specification models that program).            *)
(***************************************************************************)
\* already_ran_today(): data.get('date') is today and data.get('video_id')
\* is not None
already_ran_today(data, today) ==
    IF data.date # Some(today) THEN FALSE ELSE data.video_id # NULL

\* _save_json(LAST_RUN_FILE, {'date': today, 'status': 'in_progress'})
InProgressMarker(today) ==
    [date |-> Some(today), status |-> Some("in_progress"), video_id |-> NULL,
     topic |-> NULL]

\* record_run(topic, title, video_id, duration_seconds): the file holds the
\* date, the topic and the video_id, which is None when the upload failed.
\* (variant: the record written without the video id)
record_runWithoutId(topic, video_id, today) ==
    [date |-> Some(today), status |-> NULL, video_id |-> NULL,
     topic |-> Some(topic)]
record_run(topic, video_id, today) ==
    [date |-> Some(today), status |-> NULL, video_id |-> video_id,
     topic |-> Some(topic)]

\* select_random_topic: the topics other than 'general' that have videos.
TopicCandidates == {t \in Topics \ {"general"} : TopicVideos(t) # {}}

\* The topics main can go on with: the --topic argument when it is a
\* configured topic with videos, else any candidate of the random choice;
\* none when main returns at this point.
ChosenTopics(topic_arg) ==
    IF topic_arg # NULL
    THEN IF Val(topic_arg) \in Topics /\ TopicVideos(Val(topic_arg)) # {}
         THEN {Val(topic_arg)} ELSE {}
    ELSE TopicCandidates

\* The command lines, the network and the upload: --force given or not,
\* --topic absent or an unknown topic, the network up
\* within the wait or not, upload_video returning a video id or the upload
\* block raising (video_id stays None).
TopicArguments == {NULL, Some("unknown")}
UploadOutcomes == {NULL, Some("yt")}
AutomationBudgets == {7200}
AutomationCooldowns == {1}

AutomationRecord(force, topic_arg, skipped, network, topic, marker_written, ran, run_failed, upload_attempted, uploaded, recorded) ==
    [called |-> TRUE, force |-> force, topic_arg |-> topic_arg, today |-> now,
     found |-> last_run, skipped |-> skipped, network |-> network,
     topic |-> topic, marker_written |-> marker_written, ran |-> ran,
     run_failed |-> run_failed, upload_attempted |-> upload_attempted,
     uploaded |-> uploaded, recorded |-> recorded]

\* main of automation.py (without --setup and --update-db).
AutomationMain ==
    /\ Idle
    /\ Cardinality(compilations) < MaxComps
    /\ \E force \in BOOLEAN, topic_arg \in TopicArguments, network \in BOOLEAN :
       IF ~force /\ already_ran_today(last_run, now)
       THEN /\ auto' = AutomationRecord(force, topic_arg, TRUE, FALSE, NULL,
                                        FALSE, FALSE, FALSE, FALSE, NULL, FALSE)
            /\ UNCHANGED <<videos, compilations, compilation_videos, now, sel, comp, run, history, download_path, dl, ingest, last_run, pick, upload>>
       ELSE IF ~network \/ ChosenTopics(topic_arg) = {}
       THEN /\ auto' = AutomationRecord(force, topic_arg, FALSE, network, NULL,
                                        FALSE, FALSE, FALSE, FALSE, NULL, FALSE)
            /\ UNCHANGED <<videos, compilations, compilation_videos, now, sel, comp, run, history, download_path, dl, ingest, last_run, pick, upload>>
       ELSE \E topic \in ChosenTopics(topic_arg),
               max_duration_seconds \in AutomationBudgets,
               cooldown_days \in AutomationCooldowns :
            /\ RunAutoOn(topic, max_duration_seconds, cooldown_days)
            /\ \E video_id \in UploadOutcomes :
                  IF run'.outcome = "raised"
                  THEN /\ video_id = NULL
                       /\ last_run' = InProgressMarker(now)
                       /\ auto' = AutomationRecord(force, topic_arg, FALSE, TRUE,
                                       Some(topic), TRUE, TRUE, TRUE, FALSE, NULL,
                                       FALSE)
                  ELSE /\ last_run' = record_run(topic, video_id, now)
                       /\ auto' = AutomationRecord(force, topic_arg, FALSE, TRUE,
                                       Some(topic), TRUE, TRUE, FALSE, TRUE,
                                       video_id, TRUE)
            /\ UNCHANGED <<videos, now, ingest, pick, upload>>

\* The daily run starts on a catalogue with two videos of topic "quiz", the
\* others filed under "general", an empty ledger and no last_run.json.
InitAutomation ==
    /\ videos = [v \in 1..NumVideos |->
                   [duration |-> Some(3000),
                    topic |-> IF v <= 2 THEN "quiz" ELSE "general",
                    upload_date |-> UploadDateOf(v),
                    title |-> Some("title")]]
    /\ compilations = {}
    /\ compilation_videos = {}
    /\ now = 0
    /\ sel = NoSelection
    /\ comp = NoCompile
    /\ run = NoRun
    /\ history = NoHistory
    /\ download_path = <<>>
    /\ dl = NoDownload
    /\ ingest = NoIngest
    /\ last_run = NoLastRun
    /\ auto = NoAutomation
    /\ pick = NoPick
    /\ upload = NoUpload

NextAutomation == AutomationMain \/ ProcessExit \/ Tick

SpecAutomation == InitAutomation /\ [][NextAutomation]_vars

(***************************************************************************)
(* update_db.py: the ingest of a channel listing into the table videos.    *)
(* Here a row holds its youtube_id, and its id is its position in the      *)
(* table.                                                                  *)
(***************************************************************************)
\* What yt-dlp lists: the id, the title and the duration of a video, any of
\* them absent.
ScrapedIds == {NULL, Some("a"), Some("b")}
ScrapedTitles == {NULL, Some("Quiz Night")}

\* title.lower()
Lower(title) == IF title = "Quiz Night" THEN "quiz night" ELSE title

\* keyword.lower() in title_lower
InTitle(keyword, title_lower) ==
    \/ keyword = title_lower
    \/ keyword = "quiz" /\ title_lower = "quiz night"

\* cfg['topics']: topic name -> keywords
TopicsConfig == [t \in Topics |-> IF t = "quiz" THEN {"Quiz"} ELSE {}]

\* assign_topic(title, topics_config)
assign_topic(title) ==
    IF title = NULL \/ title = Some("") THEN "general"
    ELSE LET title_lower == Lower(Val(title))
             hits == {t \in Topics \ {"general"} :
                        \E keyword \in TopicsConfig[t] :
                            InTitle(Lower(keyword), title_lower)}
         IN  IF hits # {} THEN CHOOSE t \in hits : TRUE ELSE "general"

\* One entry of all_videos, as scrape_channel builds it (an entry without
\* id is skipped whatever else it holds: one such entry is drawn).
VidData ==
    {d \in [youtube_id : ScrapedIds, title : ScrapedTitles, duration : {Some(3000)}] :
        d.youtube_id = NULL => d.title = NULL}

\* The listings of one ingest run: up to MaxBatch entries, an id more than
\* once or not.
Listings == UNION {[1..n -> VidData] : n \in 0..MaxBatch}

\* Video(youtube_id=..., title=..., duration=..., upload_date=..., topic=topic)
NewVideo(vid_data) ==
    [youtube_id |-> Val(vid_data.youtube_id), title |-> vid_data.title,
     duration |-> vid_data.duration, upload_date |-> 1,
     topic |-> assign_topic(vid_data.title)]

\* existing = session.query(Video).filter_by(youtube_id=youtube_id).first()
\* The query flushes the session first (autoflush), so it sees the rows
\* added earlier in the same run.
Existing(rows, youtube_id) ==
    {i \in DOMAIN rows : rows[i].youtube_id = youtube_id}

\* if existing: continue
\* (variant: the stored row is refreshed from the listing)
ExistingRefreshed(row, vid_data) ==
    [row EXCEPT !.title = vid_data.title,
                !.topic = assign_topic(vid_data.title)]
ExistingSkipped(row, vid_data) == row

\* The for loop over all_videos: the rows of the session (stored and
\* pending) and new_count when the loop ends.
RECURSIVE IngestLoop(_, _, _)
IngestLoop(rows, todo, new_count) ==
    IF todo = <<>> THEN [rows |-> rows, new_count |-> new_count]
    ELSE LET vid_data == Head(todo)
             youtube_id == vid_data.youtube_id
         IN  IF youtube_id = NULL
             THEN IngestLoop(rows, Tail(todo), new_count)
             ELSE IF Existing(rows, Val(youtube_id)) # {}
             THEN IngestLoop([i \in DOMAIN rows |->
                                 IF i \in Existing(rows, Val(youtube_id))
                                 THEN ExistingSkipped(rows[i], vid_data)
                                 ELSE rows[i]],
                             Tail(todo), new_count)
             ELSE IngestLoop(Append(rows, NewVideo(vid_data)), Tail(todo),
                             new_count + 1)

\* What the database can do to the session of an ingest run: nothing, or
\* session.commit() raises and nothing of the run is stored.
IngestFailures == {"", "OperationalError"}

InitIngest ==
    /\ videos = <<>>
    /\ compilations = {}
    /\ compilation_videos = {}
    /\ now = 0
    /\ sel = NoSelection
    /\ comp = NoCompile
    /\ run = NoRun
    /\ history = NoHistory
    /\ download_path = <<>>
    /\ dl = NoDownload
    /\ ingest = NoIngest
    /\ last_run = NoLastRun
    /\ auto = NoAutomation
    /\ pick = NoPick
    /\ upload = NoUpload

\* main of update_db.py, from the listing to the commit.
UpdateDb ==
    \E all_videos \in Listings, raised \in IngestFailures :
       LET end == IngestLoop(videos, all_videos, 0)
       IN  /\ videos' = IF raised = "" THEN end.rows ELSE videos
           /\ ingest' = [called |-> TRUE, batch |-> all_videos, before |-> videos,
                         new_count |-> end.new_count, raised |-> raised]
           /\ UNCHANGED <<compilations, compilation_videos, now, sel, comp, run, history, download_path, dl, last_run, auto, pick, upload>>

NextIngest == UpdateDb

SpecIngest == InitIngest /\ [][NextIngest]_vars

(***************************************************************************)
(* automation.py: select_random_topic, called on its own with any          *)
(* topics_config and any catalogue.                                        *)
(***************************************************************************)
\* The keys a topics_config can hold, and the configurations drawn.
ConfigKeys == {"quiz", "mafia", "general"}
TopicConfigs == SUBSET ConfigKeys

\* candidates: the keys other than 'general' whose count of videos is > 0
\* (variant: 'general' not left out)
CandidateTopicsWithGeneral(topics_config) ==
    {topic \in topics_config : Cardinality(TopicVideos(topic)) > 0}
CandidateTopics(topics_config) ==
    {topic \in topics_config :
        topic # "general" /\ Cardinality(TopicVideos(topic)) > 0}

\* select_random_topic(session, topics_config): None when there is no
\* candidate, else random.choice(candidates), any one of them.
select_random_topic(topics_config) ==
    IF CandidateTopics(topics_config) = {} THEN {NULL}
    ELSE {Some(chosen) : chosen \in CandidateTopics(topics_config)}

InitTopic ==
    /\ videos \in [1..NumVideos ->
                     [duration : {Some(3000)}, topic : ConfigKeys,
                      upload_date : {0}, title : {Some("title")}]]
    /\ compilations = {}
    /\ compilation_videos = {}
    /\ now = 0
    /\ sel = NoSelection
    /\ comp = NoCompile
    /\ run = NoRun
    /\ history = NoHistory
    /\ download_path = <<>>
    /\ dl = NoDownload
    /\ ingest = NoIngest
    /\ last_run = NoLastRun
    /\ auto = NoAutomation
    /\ pick = NoPick
    /\ upload = NoUpload

SelectRandomTopicCall ==
    /\ Idle
    /\ \E topics_config \in TopicConfigs :
       \E chosen \in select_random_topic(topics_config) :
          pick' = [called |-> TRUE, topics_config |-> topics_config,
                   chosen |-> chosen]
    /\ UNCHANGED <<videos, compilations, compilation_videos, now, sel, comp, run, history, download_path, dl, ingest, last_run, auto, upload>>

NextTopic == SelectRandomTopicCall \/ ProcessExit

SpecTopic == InitTopic /\ [][NextTopic]_vars

(***************************************************************************)
(* src/youtube_upload.py: the chunk loop of upload_video. A file is sent   *)
(* in `chunks` chunks; insert_request.next_chunk() sends the next chunk    *)
(* and returns (status, None) for a chunk that is not the last, returns    *)
(* (None, response) for the last one, or raises HttpError with the status  *)
(* of the answer, and then the chunk is not counted as sent. The outcome   *)
(* of a call is                                                            *)
(*   "running"         the loop is at its head, response is None           *)
(*   "returned"        return response['id']                               *)
(*   "raised_http"     the HttpError raised again (raise)                  *)
(*   "raised_retries"  Exception("Upload failed after ... retries")        *)
(***************************************************************************)
\* What next_chunk can do: 0 stands for a chunk that was accepted, a
\* number for the status of the HttpError it raised.
ChunkResults == {0, 400, 403, 500, 502, 503, 504}

\* if e.resp.status in (500, 502, 503, 504)
\* (variant: every HttpError is retried)
RetryableAny(status) == status # 0
Retryable(status) == status \in {500, 502, 503, 504}

\* if retry_count > 10: raise Exception(...)
MaxRetries == 10

\* wait = min(2 ** retry_count, 64)
Wait(retry_count) == IF 2 ^ retry_count < 64 THEN 2 ^ retry_count ELSE 64

\* One pass of `while response is None`, given what next_chunk did.
ChunkStep(u, result) ==
    IF result = 0
    THEN IF u.sent + 1 = u.chunks
         THEN [u EXCEPT !.sent = u.sent + 1, !.last = result, !.slept = 0,
                        !.outcome = "returned"]
         ELSE [u EXCEPT !.sent = u.sent + 1, !.last = result, !.slept = 0]
    ELSE IF Retryable(result)
    THEN IF u.retry_count + 1 > MaxRetries
         THEN [u EXCEPT !.retry_count = u.retry_count + 1, !.last = result,
                        !.slept = 0, !.outcome = "raised_retries"]
         ELSE [u EXCEPT !.retry_count = u.retry_count + 1, !.last = result,
                        !.slept = Wait(u.retry_count + 1)]
    ELSE [u EXCEPT !.last = result, !.slept = 0, !.outcome = "raised_http"]

InitUpload ==
    /\ videos = [v \in 1..NumVideos |->
                   [duration |-> Some(3000), topic |-> "quiz",
                    upload_date |-> UploadDateOf(v),
                    title |-> Some("title")]]
    /\ compilations = {}
    /\ compilation_videos = {}
    /\ now = 0
    /\ sel = NoSelection
    /\ comp = NoCompile
    /\ run = NoRun
    /\ history = NoHistory
    /\ download_path = <<>>
    /\ dl = NoDownload
    /\ ingest = NoIngest
    /\ last_run = NoLastRun
    /\ auto = NoAutomation
    /\ pick = NoPick
    /\ upload = NoUpload

\* upload_video(service, video_path, ...) up to the head of the loop:
\* response = None, retry_count = 0.
UploadVideoCall ==
    /\ Idle
    /\ \E chunks \in 1..MaxChunks :
          upload' = [called |-> TRUE, chunks |-> chunks, sent |-> 0,
                     retry_count |-> 0, last |-> 0, slept |-> 0,
                     outcome |-> "running"]
    /\ UNCHANGED <<videos, compilations, compilation_videos, now, sel, comp, run, history, download_path, dl, ingest, last_run, auto, pick>>

\* One pass of the loop.
NextChunk ==
    /\ upload.outcome = "running"
    /\ \E result \in ChunkResults : upload' = ChunkStep(upload, result)
    /\ UNCHANGED <<videos, compilations, compilation_videos, now, sel, comp, run, history, download_path, dl, ingest, last_run, auto, pick>>

\* The process ends after upload_video returned or raised.
UploadExit ==
    /\ upload.outcome \in {"returned", "raised_http", "raised_retries"}
    /\ ProcessExit

NextUpload == UploadVideoCall \/ NextChunk \/ UploadExit

\* next_chunk returns or raises: a pass of the loop that was started ends.
SpecUpload == InitUpload /\ [][NextUpload]_vars /\ WF_vars(NextChunk)

(***************************************************************************)
(* Properties of the selector.                                             *)
(***************************************************************************)
\* The effective durations of the videos at the index set S of sequence c.
RECURSIVE SumAt(_, _)
SumAt(c, S) ==
    IF S = {} THEN 0
    ELSE LET i == CHOOSE x \in S : TRUE
         IN  VidDur(c[i]) + SumAt(c, S \ {i})

\* The candidate positions whose video is in the returned list.
AdmittedAt(c, r) == {i \in 1..Len(c) : c[i] \in Range(r)}

\* C1: the effective durations of the list select_videos_within_duration
\* returns sum to at most max_duration_seconds.
C1_SumWithinBudget ==
    sel.op = "within" =>
        SumAt(sel.selected, 1..Len(sel.selected)) <= sel.max_duration_seconds

\* A call that admitted two videos and rejected another for lack of budget.
C1_Witness ==
    /\ sel.op = "within"
    /\ Len(sel.selected) >= 2
    /\ Len(sel.selected) < Len(sel.candidates)

\* C2: first fit in scan order. The returned list is the candidate sequence
\* restricted to the admitted positions, and a position is admitted exactly
\* when the durations admitted before it plus its own fit the budget; a
\* rejected position does not end the scan.
C2_FirstFitInScanOrder ==
    sel.op = "within" =>
        LET c == sel.candidates
            r == sel.selected
            A == AdmittedAt(c, r)
            kept(v) == v \in Range(r)
        IN  /\ SelectSeq(c, kept) = r
            /\ \A i \in 1..Len(c) :
                 (i \in A) <=>
                     (SumAt(c, {j \in A : j < i}) + VidDur(c[i])
                        <= sel.max_duration_seconds)

\* A call that rejected a candidate and admitted a later one.
C2_Witness ==
    /\ sel.op = "within"
    /\ \E i, j \in 1..Len(sel.candidates) :
         /\ i < j
         /\ i \notin AdmittedAt(sel.candidates, sel.selected)
         /\ j \in AdmittedAt(sel.candidates, sel.selected)

\* The scan order A (5000 s), B (4000 s), C (3000 s) under a budget of 8000 s.
GreedyExample ==
    /\ sel.op = "within"
    /\ sel.max_duration_seconds = 8000
    /\ Len(sel.candidates) = 3
    /\ videos[sel.candidates[1]].duration = Some(5000)
    /\ videos[sel.candidates[2]].duration = Some(4000)
    /\ videos[sel.candidates[3]].duration = Some(3000)

\* C3 as stated: on the greedy example the result is [A, B] and C is skipped.
C3_ExampleSelectsAB ==
    GreedyExample => sel.selected = <<sel.candidates[1], sel.candidates[2]>>

\* C3, amended: on the greedy example the result is [A, C]; B (which would
\* bring the total to 9000 s) is skipped and the scan goes on to C.
C3_ExampleSelectsAC ==
    GreedyExample => sel.selected = <<sel.candidates[1], sel.candidates[3]>>

\* The greedy example has been run.
C3_Witness == GreedyExample

\* C11: for a topic with no catalogue item, select_videos_within_duration
\* returns the empty list, whatever the budget, the cooldown and the ledger
\* hold; before the call, every budget and cooldown it can be given has a
\* result, and that result is the empty list.
C11_EmptyTopicSelectsNothing ==
    \A topic \in Topics :
        ({v \in DOMAIN videos : videos[v].topic = topic} = {}) =>
            /\ (sel.op = "within" /\ sel.topic = topic) =>
                   sel.selected = <<>> /\ sel.total_duration = 0
            /\ sel.op = "none" =>
               \A max_duration_seconds \in SelBudgets, cooldown_days \in CooldownDays :
                   LET returns == SelectVideosWithinDuration(
                                      topic, max_duration_seconds, cooldown_days, now)
                   IN  /\ returns # {}
                       /\ \A s \in returns : s.selected = <<>>

\* C12: for a topic with 5 items of 3000 s each, none of them on cooldown,
\* and a budget of 7200 s, the selection holds exactly 2 items (the first two
\* of the scan, 6000 s in all), whatever order the shuffle produced.
C12_FiveItemsSelectTwo ==
    (/\ sel.op = "within"
     /\ sel.max_duration_seconds = 7200
     /\ Len(sel.candidates) = 5
     /\ \A i \in 1..5 : videos[sel.candidates[i]].duration = Some(3000)
     /\ sel.cooldown_overflow = <<>>)
    => /\ Len(sel.selected) = 2
       /\ sel.selected = <<sel.candidates[1], sel.candidates[2]>>
       /\ sel.total_duration = 6000

\* The example was run on a shuffle that is not the query order, with a use
\* in the ledger that lies before the cooldown window.
C12_Witness ==
    /\ sel.op = "within"
    /\ sel.max_duration_seconds = 7200
    /\ Len(sel.candidates) = 5
    /\ \A i \in 1..5 : videos[sel.candidates[i]].duration = Some(3000)
    /\ sel.cooldown_overflow = <<>>
    /\ compilations # {}
    /\ sel.candidates[1] = 1
    /\ sel.candidates[2] = 5

\* What a video is charged: its recorded duration when that is known and
\* strictly positive, 3600 seconds otherwise.
Charged(v) ==
    IF videos[v].duration = NULL THEN 3600
    ELSE IF (CHOOSE d \in videos[v].duration : TRUE) > 0
         THEN CHOOSE d \in videos[v].duration : TRUE
         ELSE 3600

RECURSIVE ChargedSum(_)
ChargedSum(s) == IF s = <<>> THEN 0 ELSE Charged(Head(s)) + ChargedSum(Tail(s))

\* The candidates before position i that were admitted.
AdmittedBefore(i) ==
    LET c == sel.candidates
        kept(v) == v \in Range(sel.selected)
    IN  SelectSeq(SubSeq(c, 1, i - 1), kept)

\* C13: the amount charged against the budget for an item is its recorded
\* duration when that is known and strictly positive and 3600 s when it is
\* NULL, zero or negative: the reported total is the sum of these amounts,
\* each admission decision is taken on them, and no amount is zero or less.
C13_EffectiveDuration ==
    sel.op = "within" =>
        /\ sel.total_duration = ChargedSum(sel.selected)
        /\ \A i \in 1..Len(sel.candidates) :
               /\ Charged(sel.candidates[i]) > 0
               /\ (sel.candidates[i] \in Range(sel.selected)) <=>
                      (ChargedSum(AdmittedBefore(i)) + Charged(sel.candidates[i])
                           <= sel.max_duration_seconds)

\* A selection that admitted a video of negative duration and one of NULL or
\* zero duration, each charged 3600 s.
C13_Witness ==
    /\ sel.op = "within"
    /\ sel.total_duration = 7200
    /\ \E i, j \in 1..Len(sel.selected) :
           /\ videos[sel.selected[i]].duration = Some(-60)
           /\ videos[sel.selected[j]].duration \in {NULL, Some(0)}

\* The selector was called with a positive budget for a topic without items,
\* while the catalogue holds items of another topic and the ledger a use.
C11_Witness ==
    /\ sel.op = "within"
    /\ {v \in DOMAIN videos : videos[v].topic = sel.topic} = {}
    /\ sel.max_duration_seconds = 7200
    /\ DOMAIN videos # {}
    /\ compilations # {}

(***************************************************************************)
(* Properties of compile_videos.                                           *)
(***************************************************************************)
\* The success criterion of the tier table: the transcoder returned exit code
\* zero, the output exists and is larger than 1,000,000 bytes.
TierSucceeded(inv) ==
    /\ ~inv.outcome.timed_out
    /\ inv.outcome.returncode = 0
    /\ inv.outcome.file # NULL
    /\ Val(inv.outcome.file) > 1000000

\* The transcoder returned (no timeout) and the criterion is not met.
TierFailed(inv) == ~inv.outcome.timed_out /\ ~TierSucceeded(inv)

\* C4: when the Tier 1 attempt fails and the Tier 2 attempt succeeds,
\* compile_videos returns the output path and Tier 3 is never invoked, in
\* attended and in unattended mode.
C4_Tier2SuccessSkipsTier3 ==
    (/\ comp.called
     /\ Len(comp.tiers) >= 2
     /\ TierFailed(comp.tiers[1])
     /\ TierSucceeded(comp.tiers[2]))
    => /\ comp.result = "path"
       /\ \A k \in 1..Len(comp.tiers) : comp.tiers[k].tier # 3

\* Tier 1 failed and Tier 2 succeeded, in attended mode.
C4_Witness ==
    /\ comp.called
    /\ ~comp.auto_mode
    /\ Len(comp.tiers) >= 2
    /\ TierFailed(comp.tiers[1])
    /\ TierSucceeded(comp.tiers[2])

\* Tier k was the last one invoked and compile_videos returned its output.
ReturnedFrom(k) == comp.result = "path" /\ Len(comp.tiers) = k

C18_UnattendedNoTimeLimit ==
    (comp.called /\ comp.auto_mode) =>
        /\ ~comp.prompted
        /\ \A k \in 1..Len(comp.tiers) : comp.tiers[k].timeout = NULL

\* The operator said yes: what was typed is 'y' once stripped and lowered.
SaidYes(typed) == typed \in {"y", " Y "}

\* C19: in attended mode (auto_mode=False) Tier 3 is invoked only after the
\* operator was asked and answered 'y' (compared after strip and lower);
\* the operator is asked exactly when Tier 2 has failed, and with any other
\* answer compile_videos returns None without invoking Tier 3.
C19_Tier3OnlyAfterYes ==
    (comp.called /\ ~comp.auto_mode) =>
        /\ (\E k \in 1..Len(comp.tiers) : comp.tiers[k].tier = 3)
              => comp.prompted /\ SaidYes(comp.typed)
        /\ (comp.prompted /\ ~SaidYes(comp.typed))
              => /\ comp.result = "None"
                 /\ \A k \in 1..Len(comp.tiers) : comp.tiers[k].tier # 3
        /\ comp.prompted <=> (Len(comp.tiers) >= 2 /\ TierFailed(comp.tiers[2]))

\* An attended call in which Tier 2 failed and the operator typed "yes".
C19_Witness ==
    /\ comp.called
    /\ ~comp.auto_mode
    /\ comp.prompted
    /\ comp.typed = "yes"
    /\ Len(comp.tiers) = 2
    /\ comp.result = "None"

\* C21: within one call of compile_videos the tiers are invoked strictly
\* in the order 1, 2, 3 and each at most once: the k-th invocation is that
\* of Tier k, there are at most three, and the invocation of a tier follows
\* only on an invocation of the tier before it that returned and failed; a
\* tier that failed is not run again.
C21_TiersInOrderOnce ==
    comp.called =>
        /\ Len(comp.tiers) <= 3
        /\ \A k \in 1..Len(comp.tiers) :
              /\ comp.tiers[k].tier = k
              /\ k > 1 => TierFailed(comp.tiers[k - 1])
        /\ \A j, k \in 1..Len(comp.tiers) :
              comp.tiers[j].tier = comp.tiers[k].tier => j = k

\* All three tiers were invoked, in unattended mode, and the last one
\* succeeded.
C21_Witness ==
    /\ comp.called
    /\ comp.auto_mode
    /\ Len(comp.tiers) = 3
    /\ TierFailed(comp.tiers[1])
    /\ TierFailed(comp.tiers[2])
    /\ TierSucceeded(comp.tiers[3])
    /\ comp.result = "path"

(***************************************************************************)
(* Properties of the ledger commit and of the cooldown.                    *)
(***************************************************************************)
\* The rows of the two tables that belong to the compilation of the last run.
RecordsOfRun == {c \in compilations : c.id = run.new_id}
UsageOfRun == {cv \in compilation_videos : cv.compilation_id = run.new_id}

\* C6: the ledger commit is atomic. When a step of the transaction fails
\* after the record was inserted and flushed (or the commit fails), neither
\* the record nor any usage row of the run is persisted; when none fails, the
\* record and one usage row per member are.
C6_LedgerCommitAtomic ==
    run.ledger_reached =>
        IF run.ledger_fail # 0
        THEN RecordsOfRun = {} /\ UsageOfRun = {}
        ELSE /\ Cardinality(RecordsOfRun) = 1
             /\ Cardinality(UsageOfRun) = Len(run.video_files)
             /\ {cv.video_id : cv \in UsageOfRun} = Range(run.video_files)

\* An unattended run whose second usage insert failed, after the record and
\* one usage row had been written.
C6_Witness ==
    /\ run.mode = "auto"
    /\ run.ledger_reached
    /\ Len(run.video_files) = 2
    /\ run.ledger_fail = 3

\* C7: a failure of the ledger commit after a successful compile is not
\* fatal: the run ends as successful with the compiled artifact, and the
\* failure is surfaced as a warning.
C7_LedgerFailureNonFatal ==
    (run.ledger_reached /\ run.ledger_fail # 0) =>
        /\ run.outcome \in {"returned", "done"}
        /\ run.output_file = "path"
        /\ run.warning

\* C20: when Tier 3 also fails, the failure run_auto reports to its caller
\* carries the diagnostic text the last failed tier captured.
C20_FailureCarriesDiagnostic ==
    (/\ run.mode = "auto"
     /\ comp.called
     /\ Len(comp.tiers) = 3
     /\ TierFailed(comp.tiers[3])
     /\ comp.tiers[3].outcome.stderr # "")
    => /\ run.outcome = "raised"
       /\ comp.tiers[3].outcome.stderr \in ExceptionText(run.error)

\* A compilation created at or after `date` used video v.
UsedSince(v, date) ==
    \E c \in compilations :
        /\ c.created_at >= date
        /\ \E cv \in compilation_videos :
               cv.compilation_id = c.id /\ cv.video_id = v

\* The most recent use of video v was at time t.
LastUsedAt(v, t) ==
    /\ UsedSince(v, t)
    /\ ~UsedSince(v, t + 1)

\* C8: the cooldown boundary is inclusive, in both selectors. A video is in
\* the fresh bucket iff no compilation that used it was created at or after
\* now - cooldown_days; one last used exactly then is cooling.
C8_InclusiveCooldownBoundary ==
    sel.op \in {"within", "topn"} =>
        \A v \in TopicVideos(sel.topic) :
            LET cooldown_date == sel.utcnow - sel.cooldown_days
            IN  /\ v \in Range(sel.available) <=> ~UsedSince(v, cooldown_date)
                /\ v \in Range(sel.cooldown_overflow) <=> UsedSince(v, cooldown_date)
                /\ LastUsedAt(v, cooldown_date) => v \in Range(sel.cooldown_overflow)

\* select_videos met a video last used exactly at now - cooldown_days.
C8_Witness ==
    /\ sel.op = "topn"
    /\ \E v \in TopicVideos(sel.topic) :
           LastUsedAt(v, sel.utcnow - sel.cooldown_days)

\* C9: in the candidate sequence and in the result of
\* select_videos_within_duration, every fresh video precedes every cooling one.
FreshBeforeCooling(s, cooldown_date) ==
    \A i, j \in 1..Len(s) :
        (i < j) => ~(UsedSince(s[i], cooldown_date) /\ ~UsedSince(s[j], cooldown_date))

C9_FreshPrecedesCooling ==
    sel.op = "within" =>
        /\ FreshBeforeCooling(sel.candidates, sel.utcnow - sel.cooldown_days)
        /\ FreshBeforeCooling(sel.selected, sel.utcnow - sel.cooldown_days)
        /\ Range(sel.candidates) = TopicVideos(sel.topic)

\* A result that holds a cooling video after a fresh one.
C9_Witness ==
    /\ sel.op = "within"
    /\ Len(sel.selected) >= 2
    /\ UsedSince(sel.selected[Len(sel.selected)], sel.utcnow - sel.cooldown_days)
    /\ ~UsedSince(sel.selected[1], sel.utcnow - sel.cooldown_days)

\* The time of the most recent use of a video that was used.
LastUse(v) == CHOOSE t \in 0..sel.utcnow : LastUsedAt(v, t)

\* C26: select_videos returns min(count, number of videos of the topic)
\* videos, without repetition; the result holds a cooling video only when
\* fewer than count videos are fresh, every fresh video of the result
\* precedes every cooling one, and the cooling videos that pad the result
\* are the least recently used ones, least recently used first.
C26_TopNPadsLeastRecentlyUsed ==
    sel.op = "topn" =>
        LET cooldown_date == sel.utcnow - sel.cooldown_days
            items == TopicVideos(sel.topic)
            fresh == {v \in items : ~UsedSince(v, cooldown_date)}
            cooling == items \ fresh
            n == Len(sel.selected)
        IN  /\ n = IF sel.count < Cardinality(items)
                    THEN sel.count ELSE Cardinality(items)
            /\ \A i, j \in 1..n : sel.selected[i] = sel.selected[j] => i = j
            /\ Range(sel.selected) \cap cooling # {}
                  => Cardinality(fresh) < sel.count
            /\ FreshBeforeCooling(sel.selected, cooldown_date)
            /\ \A v \in Range(sel.selected) \cap cooling :
                  \A w \in cooling \ Range(sel.selected) :
                      LastUse(v) <= LastUse(w)
            /\ \A i, j \in 1..n :
                  (/\ i < j
                   /\ sel.selected[i] \in cooling
                   /\ sel.selected[j] \in cooling)
                  => LastUse(sel.selected[i]) <= LastUse(sel.selected[j])

\* The runs that had committed when the selection of the last run was made.
CommittedBefore == {history[k] : k \in 1..run.seen}

\* C10: the cooldown loop closes. A selection made within cooldown_days of
\* the commit of a run classifies every member of that run's compilation as
\* cooling; a video all of whose uses lie further back is fresh again.
C10_CooldownLoopCloses ==
    (sel.op = "within" /\ run.mode # "none") =>
        \A v \in TopicVideos(sel.topic) :
            /\ (\E h \in CommittedBefore :
                    /\ h.topic = sel.topic
                    /\ v \in h.members
                    /\ sel.utcnow - h.at <= sel.cooldown_days)
               => /\ v \in Range(sel.cooldown_overflow)
                  /\ v \notin Range(sel.available)
            /\ (\A h \in CommittedBefore :
                    v \in h.members => sel.utcnow - h.at > sel.cooldown_days)
               => /\ v \in Range(sel.available)
                  /\ v \notin Range(sel.cooldown_overflow)

\* A later run's selection met one member of an earlier committed run still
\* cooling, its use lying exactly cooldown_days back, and selected it last.
C10_Witness ==
    /\ sel.op = "within"
    /\ run.mode = "auto"
    /\ \E h \in CommittedBefore :
         /\ sel.utcnow - h.at = sel.cooldown_days
         /\ sel.cooldown_days > 0
         /\ h.members \subseteq Range(sel.cooldown_overflow)
         /\ h.members # {}

Resolved == {<<dl.calls[k].video, Val(dl.calls[k].result)>> :
                k \in {j \in 1..Len(dl.calls) : dl.calls[j].result # NULL}}

\* C15: acquisition is best-effort per item. Whatever the calls of
\* download_video do (retries exhausted, exceptions raised),
\* download_videos_sequential does not raise, calls download_video once for
\* every item of its input in input order, and returns exactly the items
\* that resolved to a file.
C15_AcquisitionBestEffort ==
    dl.op = "sequential" =>
        /\ dl.raised = ""
        /\ Len(dl.calls) = Len(dl.videos)
        /\ \A k \in 1..Len(dl.calls) : dl.calls[k].video = dl.videos[k]
        /\ Range(dl.downloaded) = Resolved
        /\ Len(dl.downloaded) = Cardinality(Resolved)

\* Every pass of the call ended in an exception.
AllPassesFailed(c) ==
    \A i \in 1..Len(c.attempts) : c.attempts[i].outcome.kind = "error"

\* C16: for one item the retrieval is tried at most retry_attempts times in
\* all, the passes of the OAuth re-entry included; when retry_attempts
\* passes have failed, download_video returns None.
C16_RetrievalAttemptsBounded ==
    \A k \in 1..Len(dl.calls) :
        LET c == dl.calls[k]
        IN  /\ Len(c.attempts) <= c.retry_attempts
            /\ (Len(c.attempts) = c.retry_attempts /\ AllPassesFailed(c))
                  => c.result = NULL /\ c.raised = ""

\* A call without OAuth whose first pass met bot detection, that re-entered
\* with OAuth, failed twice more and returned None after three passes.
C16_Witness ==
    /\ dl.op = "video"
    /\ LET c == dl.calls[1]
       IN  /\ ~c.use_oauth
           /\ c.retry_attempts = 3
           /\ c.reentered
           /\ Len(c.attempts) = 3
           /\ AllPassesFailed(c)
           /\ c.attempts[3].use_oauth
           /\ c.result = NULL

\* The pass failed with a rate-limit text (and no bot-detection text).
RateLimited(a) ==
    a.outcome.kind = "error" /\ "429" \in a.outcome.text /\ "bot" \notin a.outcome.text

\* C17: the back-off is truncated exponential. When two consecutive passes of
\* a call are rate limited and each is followed by another pass, the delay
\* after the second is longer than the delay after the first, unless the
\* delay has reached the cap (the longest delay before a retry, 30 s + 3 s).
C17_BackoffGrowsWithAttempt ==
    \A k \in 1..Len(dl.calls) :
        LET a == dl.calls[k].attempts
        IN  \A i \in 1..Len(a) :
                (i + 2 <= Len(a) /\ RateLimited(a[i]) /\ RateLimited(a[i + 1]))
                    => \/ a[i + 1].slept > a[i].slept
                       \/ a[i].slept = 30 + 3

(***************************************************************************)
(* Properties of a run.                                                    *)
(***************************************************************************)
\* C22: in an unattended run that reached the acquisition, a failure of
\* some retrievals is fatal exactly when no item resolved: with no resolved
\* item run_auto raises and the transcoder is never invoked, with at least
\* one resolved item the run goes on and compiles exactly the resolved
\* items.
C22_FatalOnlyWhenNoneResolved ==
    (run.mode = "auto" /\ dl.op = "sequential") =>
        IF dl.downloaded = <<>>
        THEN run.outcome = "raised" /\ ~comp.called
        ELSE /\ comp.called
             /\ comp.video_files = Range(Keys(dl.downloaded))

\* C23: in an unattended run the selection comes before every retrieval
\* and every transcoder invocation: the retrieval is called with the
\* sequence the selector returned and makes one call per item of it, in
\* its order, the transcoder is given what the retrieval resolved, and
\* there is no retrieval besides; when the selection is empty run_auto
\* raises "No videos found" with no retrieval and no transcoder invocation.
C23_SelectionPrecedesIO ==
    run.mode = "auto" =>
        /\ sel.op = "within"
        /\ dl.op # "none" =>
              /\ dl.op = "sequential"
              /\ dl.videos = sel.selected
              /\ Len(dl.calls) <= Len(sel.selected)
              /\ \A i \in 1..Len(dl.calls) : dl.calls[i].video = sel.selected[i]
        /\ comp.called =>
              /\ dl.op = "sequential"
              /\ comp.video_files = Range(Keys(dl.downloaded))
              /\ comp.video_files \subseteq Range(sel.selected)
        /\ sel.selected = <<>> =>
              /\ run.outcome = "raised"
              /\ run.error = "No videos found"
              /\ dl = NoDownload
              /\ ingest = NoIngest
              /\ last_run = NoLastRun
              /\ auto = NoAutomation
              /\ download_path = <<>>
              /\ ~comp.called

\* An unattended run whose selection was empty because no video of the
\* topic fits the budget.
C23_Witness ==
    /\ run.mode = "auto"
    /\ sel.op = "within"
    /\ sel.candidates # <<>>
    /\ sel.selected = <<>>
    /\ run.outcome = "raised"

\* The junction rows that reference the compilation c.
UsageRows(c) == {cv \in compilation_videos : cv.compilation_id = c.id}

\* C24: after any sequence of runs, every stored Compilation row has a
\* video_count equal to the number of compilation_videos rows that
\* reference it.
C24_VideoCountMatchesUsage ==
    \A c \in compilations : c.video_count = Cardinality(UsageRows(c))

\* Two runs have committed their record, one of them with two videos and
\* one with a single video.
C24_Witness ==
    /\ \E c \in compilations : c.video_count = 2
    /\ \E c \in compilations : c.video_count = 1

\* The sum of the recorded durations of the videos ids, with 3600 in place
\* of a duration of `defaulted`.
RECURSIVE RecordedSum(_, _)
RecordedSum(ids, defaulted) ==
    IF ids = <<>> THEN 0
    ELSE (IF videos[Head(ids)].duration \in defaulted THEN 3600
          ELSE Val(videos[Head(ids)].duration))
         + RecordedSum(Tail(ids), defaulted)

\* The unattended run got an output file from compile_videos.
CompiledInAuto == run.mode = "auto" /\ comp.called /\ comp.result = "path"

\* C25 as stated: after a successful compile run_auto returns, with the
\* probed duration of the output file when the probe succeeded and
\* otherwise with the sum of the recorded durations of the acquired videos,
\* 3600 for a video whose duration is unknown (NULL).
C25_FallbackSumsRecorded ==
    CompiledInAuto =>
        /\ run.outcome = "returned"
        /\ run.total_seconds = IF run.probed # 0 THEN run.probed
                               ELSE RecordedSum(run.video_files, {NULL})

\* C25, amended: as above, with 3600 for a video whose recorded duration is
\* unknown (NULL) or zero.
C25_FallbackSumsRecordedOrDefault ==
    CompiledInAuto =>
        /\ run.outcome = "returned"
        /\ run.total_seconds = IF run.probed # 0 THEN run.probed
                               ELSE RecordedSum(run.video_files, {NULL, Some(0)})

\* The probe failed after a compile of two videos, one of them with a
\* recorded duration of zero.
C25_Witness ==
    /\ CompiledInAuto
    /\ run.probed = 0
    /\ Len(run.video_files) = 2
    /\ \E i \in 1..2 : videos[run.video_files[i]].duration = Some(0)
    /\ run.total_seconds = 6600

\* C27: the name of the output file is made of the topic and the timestamp
\* of the start of the compile, and two distinct compile runs never produce
\* the same name: no two recorded compilations have the same filename.
C27_OutputNamesDistinct ==
    \A c1, c2 \in compilations : c1.id # c2.id => c1.filename # c2.filename

(***************************************************************************)
(* Properties of the ingest.                                               *)
(***************************************************************************)
\* C28: after any sequence of ingest runs, whatever the listings held (an
\* id more than once, ids already stored), the table videos holds at most
\* one row per youtube_id, and an ingest run neither deletes nor modifies a
\* row that was stored before it: the rows of before are still there, with
\* the id, topic, duration and title they had.
C28_IngestKeepsOneRowPerId ==
    /\ \A i, j \in DOMAIN videos :
          videos[i].youtube_id = videos[j].youtube_id => i = j
    /\ ingest.called =>
          \A i \in DOMAIN ingest.before :
              i \in DOMAIN videos /\ videos[i] = ingest.before[i]

\* An ingest run on a catalogue of one video, with a listing that names
\* that video under another title and names a new one: one row was added.
C28_Witness ==
    /\ ingest.called
    /\ ingest.raised = ""
    /\ Len(ingest.before) = 1
    /\ Len(videos) = 2
    /\ \E k \in DOMAIN ingest.batch :
          /\ ingest.batch[k].youtube_id = Some(ingest.before[1].youtube_id)
          /\ ingest.batch[k].title # ingest.before[1].title

(***************************************************************************)
(* Properties of the daily run.                                            *)
(***************************************************************************)
\* The run did nothing of the pipeline: no marker written, run_auto not
\* called, no retrieval, no compile, no upload.
SkippedByGuard ==
    /\ ~auto.marker_written
    /\ ~auto.ran
    /\ dl = NoDownload
    /\ ~comp.called
    /\ ~auto.upload_attempted

\* C29: once a run has been recorded for today by record_run (step 9 of
\* the pipeline), a later run of the same day that is started without
\* --force is skipped by the guard: it downloads, compiles and uploads
\* nothing.
C29_RecordedRunSkipsLaterRun ==
    (/\ auto.called
     /\ ~auto.force
     /\ auto.found.date = Some(auto.today)
     /\ auto.found.status = NULL)
    => SkippedByGuard

\* C30: after a run has written the in-progress marker of today and then
\* failed, in the compile (the marker stays) or in the upload (record_run
\* stores video_id None), a later run of the same day that is started
\* without --force is skipped by the guard.
C30_MarkerBlocksRerunAfterFailure ==
    (/\ auto.called
     /\ ~auto.force
     /\ auto.found.date = Some(auto.today)
     /\ \/ auto.found.status = Some("in_progress")
        \/ auto.found.video_id = NULL)
    => SkippedByGuard

\* The daily run got as far as run_auto and run_auto returned: the compile
\* succeeded.
CompileSucceeded == auto.ran /\ run.outcome = "returned"

\* C31: in the daily run an upload is attempted only after the compile
\* succeeded; when the compile failed (run_auto raised) no upload is
\* attempted and the file of the last run holds no completed-run record,
\* only the in-progress marker; when the compile succeeded the file holds
\* a record of today whose video id is set iff the upload succeeded.
C31_UploadAndRecordFollowCompile ==
    auto.called =>
       /\ auto.upload_attempted => CompileSucceeded
       /\ (auto.ran /\ ~CompileSucceeded) =>
             /\ ~auto.upload_attempted
             /\ ~auto.recorded
             /\ last_run = InProgressMarker(auto.today)
       /\ CompileSucceeded =>
             /\ auto.recorded
             /\ last_run.date = Some(auto.today)
             /\ last_run.status = NULL
             /\ last_run.topic = auto.topic
             /\ last_run.video_id # NULL <=> auto.uploaded # NULL
             /\ last_run.video_id = auto.uploaded

\* A daily run whose compile succeeded and whose upload failed, after one
\* whose compile failed.
C31_Witness ==
    /\ auto.called
    /\ CompileSucceeded
    /\ auto.upload_attempted
    /\ auto.uploaded = NULL
    /\ last_run.video_id = NULL
    /\ auto.found.status = Some("in_progress")

(***************************************************************************)
(* Properties of the topic choice.                                         *)
(***************************************************************************)
\* The configured topics other than 'general' with at least one video.
NonGeneralWithItems(topics_config) ==
    {t \in topics_config \ {"general"} :
        \E v \in DOMAIN videos : videos[v].topic = t}

\* C32: select_random_topic never returns 'general' and never a topic
\* without videos; it returns None exactly when no configured topic
\* other than 'general' has a video, and else a configured topic with at
\* least one video.
C32_RandomTopicHasItemsNotGeneral ==
    pick.called =>
       /\ pick.chosen # Some("general")
       /\ pick.chosen = NULL <=> NonGeneralWithItems(pick.topics_config) = {}
       /\ pick.chosen # NULL =>
             /\ Val(pick.chosen) \in pick.topics_config
             /\ \E v \in DOMAIN videos : videos[v].topic = Val(pick.chosen)

\* A call that returned "mafia" although 'general' is configured and has
\* videos, and "quiz" is configured without videos.
C32_Witness ==
    /\ pick.called
    /\ pick.chosen = Some("mafia")
    /\ {"general", "quiz"} \subseteq pick.topics_config
    /\ \E v \in DOMAIN videos : videos[v].topic = "general"
    /\ \A v \in DOMAIN videos : videos[v].topic # "quiz"

(***************************************************************************)
(* Properties of the upload.                                               *)
(***************************************************************************)
UploadEnded == upload.outcome \in {"returned", "raised_http", "raised_retries"}

\* What holds of the loop at every moment of a call.
UploadLoopSafe ==
    upload.called =>
       \* a retry follows a 500, 502, 503 or 504 only: after any other
       \* HttpError the call has raised it at once
       /\ upload.last \notin {0, 500, 502, 503, 504} <=>
             upload.outcome = "raised_http"
       \* at most 10 retries over the whole upload; the 11th retryable error
       \* raises
       /\ upload.outcome = "running" => upload.retry_count <= 10
       /\ upload.retry_count >= 11 <=> upload.outcome = "raised_retries"
       /\ upload.outcome = "raised_retries" =>
             upload.retry_count = 11 /\ upload.last \in {500, 502, 503, 504}
       \* otherwise the remote id is returned, once the last chunk is sent
       /\ upload.outcome = "returned" <=> upload.sent = upload.chunks
       /\ upload.outcome = "returned" => upload.last = 0

\* C33: upload_video retries only on the errors 500, 502, 503, 504 and at
\* most 10 times over the whole upload: it raises at once on any other
\* HTTP error, raises on the 11th retryable error, and otherwise returns
\* the remote id; every call ends with one of these outcomes.
C33_UploadRetriesBoundedAndEnds ==
    /\ []UploadLoopSafe
    /\ (upload.outcome = "running") ~> UploadEnded

\* A call that raised on its 11th retryable error, the errors spread over
\* both chunks of the upload.
C33_Witness ==
    /\ upload.outcome = "raised_retries"
    /\ upload.retry_count = 11
    /\ upload.sent = 1
    /\ upload.chunks = 2

(***************************************************************************)
(* Properties of the rows a run links.                                     *)
(***************************************************************************)
\* The videos the retrieval of the last run handed back with a file, and
\* the selected videos it handed back without one.
Acquired == {dl.downloaded[i][1] : i \in 1..Len(dl.downloaded)}
NotAcquired == Range(sel.selected) \ Acquired

\* C34: the usage rows that a run commits are one row for each video that
\* was acquired and compiled; a video that was selected and failed to
\* download gets no usage row of the run, so the run does not put it on
\* cooldown.
C34_UsageRowsAreTheAcquired ==
    (run.ledger_reached /\ run.ledger_fail = 0) =>
       /\ {cv.video_id : cv \in UsageOfRun} = Acquired
       /\ Cardinality(UsageOfRun) = Cardinality(Acquired)
       /\ comp.video_files = Acquired
       /\ \A v \in NotAcquired :
             /\ \A cv \in UsageOfRun : cv.video_id # v
             /\ \A cv \in compilation_videos :
                   cv.video_id = v => cv.compilation_id # run.new_id

\* A run that committed after it had selected two videos and acquired one
\* of them.
C34_Witness ==
    /\ run.ledger_reached
    /\ run.ledger_fail = 0
    /\ Cardinality(Range(sel.selected)) = 2
    /\ Cardinality(Acquired) = 1
    /\ Cardinality(NotAcquired) = 1
    /\ Cardinality(UsageOfRun) = 1

(***************************************************************************)
(* Properties of the returned selection.                                   *)
(***************************************************************************)
\* What is left of the budget after the returned videos are charged.
RemainingBudget == sel.max_duration_seconds - ChargedSum(sel.selected)

\* C35: when select_videos_within_duration returns, no video of the topic
\* that is absent from the result is charged at most the remaining budget
\* (max_duration_seconds minus the total of the result), and no video is
\* in the result more than once.
C35_SelectionMaximal ==
    sel.op = "within" =>
       /\ \A v \in TopicVideos(sel.topic) \ Range(sel.selected) :
             Charged(v) > RemainingBudget
       /\ \A i, j \in 1..Len(sel.selected) :
             i # j => sel.selected[i] # sel.selected[j]

\* A result that left out a fresh video that did not fit and took a
\* cooling one that fits what was left.
C35_Witness ==
    /\ sel.op = "within"
    /\ sel.selected # <<>>
    /\ RemainingBudget > 0
    /\ \E v \in TopicVideos(sel.topic) \ Range(sel.selected) :
          /\ ~UsedSince(v, sel.utcnow - sel.cooldown_days)
          /\ Charged(v) > RemainingBudget
    /\ \E i \in 1..Len(sel.selected) :
          UsedSince(sel.selected[i], sel.utcnow - sel.cooldown_days)

(***************************************************************************)
(* Properties of the cache check.                                          *)
(***************************************************************************)
\* C36: a cache hit of download_video returns only a completed download of
\* the requested video: never the intermediate file temp_video_<id>.mp4
\* that a failed merge left, and never a file of another video, whatever
\* downloads succeeded or failed in the directory before.
C36_CacheHitIsCompletedDownload ==
    \A i \in 1..Len(dl.calls) :
        (dl.calls[i].cached /\ dl.calls[i].result # NULL) =>
            /\ Val(dl.calls[i].result).kind = "final"
            /\ Val(dl.calls[i].result).youtube_id = dl.calls[i].video

(***************************************************************************)
(* Properties of a transcoder timeout.                                     *)
(***************************************************************************)
\* C37: a transcoder invocation of Tier 1 or Tier 2 that hits its timeout
\* is handled like any other failure of the tier: compile_videos goes on
\* to the next tier and ends by returning the output path or None, it
\* never raises out of the chain of tiers.
C37_TimeoutAdvancesLikeFailure ==
    comp.called =>
       \A k \in {1, 2} :
          (Len(comp.tiers) >= k /\ comp.tiers[k].outcome.timed_out) =>
             /\ comp.result \in {"path", "None"}
             /\ \/ Len(comp.tiers) > k
                \/ k = 2 /\ comp.prompted /\ Declined(comp.typed)

(***************************************************************************)
(* Properties of the exits of run_auto.                                    *)
(***************************************************************************)
\* C38: every way run_auto ends, by returning or by raising (empty
\* selection, no download, compile failure or exception, ledger failure),
\* the database session has been closed, and when downloads were made the
\* downloaded source files have been removed.
C38_EveryExitClosesAndCleans ==
    (run.mode = "auto" /\ run.outcome \in {"returned", "raised"}) =>
       /\ run.session_closed
       /\ dl.downloaded # <<>> =>
             /\ run.cleaned
             /\ \A i \in 1..Len(dl.downloaded) :
                   dl.downloaded[i][2] \notin Range(download_path)

(***************************************************************************)
(* Properties of the output file of a failed compile.                      *)
(***************************************************************************)
\* C39: a failed compile leaves no partial artifact: whenever
\* compile_videos returns None, after all tiers failed or after the
\* operator declined Tier 3, no file exists at the output path of the
\* call. (Tier 2 and Tier 3 unlink the output path before they start, so
\* the file at the end of a tier is the one that tier wrote.)
C39_FailedCompileLeavesNoFile ==
    (comp.called /\ comp.result = "None") => comp.output = NULL

====
